---- MODULE Spec2Model ----
(***************************************************************************)
(* ZX Spectrum 48K emulator core: Z80 interpreter (Z80CPU and              *)
(* InstructionDecoder), Memory, ULA, Tape player and the frame driver      *)
(* ZXSpectrum.executeFrame.                                                *)
(*                                                                         *)
(* Memory arrays (Uint8Array) are sparse functions: an index outside the   *)
(* DOMAIN holds 0, the value a fresh Uint8Array holds.                     *)
(***************************************************************************)
EXTENDS Integers, Sequences, FiniteSets, TLC

VARIABLES
  cpu,    \* Z80CPU fields
  mem,    \* Memory: [rom, ram, ula (setULA called)]
  ula,    \* ULA fields
  tape,   \* Tape fields
  frame,  \* ZXSpectrum.executeFrame: position in the loop and its locals
  err,    \* the exception an operation raised, "none" when it returned
  op,     \* history: the operation the last step performed
  hist    \* history: counters and what has happened since an event

vars == <<cpu, mem, ula, tape, frame, err, op, hist>>

(***************************************************************************)
(* Bounds of the model                                                     *)
(***************************************************************************)
MaxSteps == 14        \* operations per behaviour of the CPU-level specification
MaxInterrupts == 2    \* cpu.interrupt() calls per behaviour of the CPU-level specification

(***************************************************************************)
(* Bit arithmetic on naturals                                              *)
(***************************************************************************)
Bit(v, n) == (v \div (2 ^ n)) % 2

W8(v) == v % 256
W16(v) == v % 65536

\* a sparse Uint8Array
Get(arr, i) == IF i \in DOMAIN arr THEN arr[i] ELSE 0
Put(arr, i, v) == [k \in (DOMAIN arr) \cup {i} |-> IF k = i THEN v ELSE arr[k]]

(***************************************************************************)
(* Memory (src/src/spectrum/memory.js)                                     *)
(***************************************************************************)
RomSize == 16384

MemoryRead(m, addr) ==
  LET a == W16(addr)
  IN  IF a < RomSize THEN Get(m.rom, a) ELSE Get(m.ram, a - RomSize)

\* a write that forgets the ROM guard
MemoryWriteUnguarded(m, addr, value) ==
  LET a == W16(addr)
      v == W8(value)
  IN  IF a < RomSize THEN [m EXCEPT !.rom = Put(m.rom, a, v)]
      ELSE [m EXCEPT !.ram = Put(m.ram, a - RomSize, v)]

MemoryWrite(m, addr, value) ==
  LET a == W16(addr)
      v == W8(value)
  IN  IF a < RomSize THEN m
      ELSE [m EXCEPT !.ram = Put(m.ram, a - RomSize, v)]

(***************************************************************************)
(* Z80CPU (src/src/instructions/iy.js, class Z80CPU)                       *)
(***************************************************************************)
FLAG_C == 1
FLAG_N == 2
FLAG_PV == 4
FLAG_X == 8
FLAG_H == 16
FLAG_Y == 32
FLAG_Z == 64
FLAG_S == 128

GetFlag(f, flag) == (f \div flag) % 2 = 1
SetFlag(f, flag, value) ==
  IF value THEN (IF GetFlag(f, flag) THEN f ELSE f + flag)
  ELSE (IF GetFlag(f, flag) THEN f - flag ELSE f)

CpuReset ==
  [a |-> 0, f |-> 0, b |-> 0, c |-> 0, d |-> 0, e |-> 0, h |-> 0, l |-> 0,
   sp |-> 65535, pc |-> 0, ix |-> 0, iy |-> 0, i |-> 0, r |-> 0,
   iff1 |-> FALSE, iff2 |-> FALSE, im |-> 0,
   enableInterruptsPending |-> FALSE, halted |-> FALSE, tstates |-> 0]

GetAF(c) == c.a * 256 + c.f
GetBC(c) == c.b * 256 + c.c
GetDE(c) == c.d * 256 + c.e
GetHL(c) == c.h * 256 + c.l
SetAF(c, val) == [c EXCEPT !.a = W8(val \div 256), !.f = W8(val)]
SetBC(c, val) == [c EXCEPT !.b = W8(val \div 256), !.c = W8(val)]
SetDE(c, val) == [c EXCEPT !.d = W8(val \div 256), !.e = W8(val)]
SetHL(c, val) == [c EXCEPT !.h = W8(val \div 256), !.l = W8(val)]

\* a machine state s is [cpu, mem, ula, err]; the helpers below thread it
ReadMem(s, addr) == MemoryRead(s.mem, W16(addr))
WriteMem(s, addr, val) == [s EXCEPT !.mem = MemoryWrite(s.mem, W16(addr), W8(val))]

ReadMemWord(s, addr) ==
  ReadMem(s, W16(addr + 1)) * 256 + ReadMem(s, addr)

\* push that stores the low byte first
PushLowFirst(s, val) ==
  LET sp1 == W16(s.cpu.sp - 1)
      s1 == WriteMem(s, sp1, W8(val))
      sp2 == W16(sp1 - 1)
      s2 == WriteMem(s1, sp2, W8(val \div 256))
  IN  [s2 EXCEPT !.cpu.sp = sp2]

Push(s, val) ==
  LET sp1 == W16(s.cpu.sp - 1)
      s1 == WriteMem(s, sp1, W8(val \div 256))
      sp2 == W16(sp1 - 1)
      s2 == WriteMem(s1, sp2, W8(val))
  IN  [s2 EXCEPT !.cpu.sp = sp2]

\* Pop yields [val, s]
Pop(s) ==
  LET low == ReadMem(s, s.cpu.sp)
      sp1 == W16(s.cpu.sp + 1)
      high == ReadMem(s, sp1)
  IN  [val |-> high * 256 + low, s |-> [s EXCEPT !.cpu.sp = W16(sp1 + 1)]]

IncR(r) == ((r \div 128) * 128) + ((r + 1) % 128)

\* interrupt() that leaves the flip-flops as they were
InterruptKeepsIff(s) ==
  IF ~s.cpu.iff1 \/ s.cpu.enableInterruptsPending THEN s
  ELSE LET s1 == Push([s EXCEPT !.cpu.halted = FALSE], s.cpu.pc)
       IN  [s1 EXCEPT !.cpu.pc = 56, !.cpu.tstates = @ + 13]

\* interrupt() whose mode 2 reads its vector at (I << 8) instead of (I << 8) | 0xFF
InterruptVectorLow(s) ==
  IF ~s.cpu.iff1 \/ s.cpu.enableInterruptsPending THEN s
  ELSE LET s0 == [s EXCEPT !.cpu.halted = FALSE, !.cpu.iff1 = FALSE, !.cpu.iff2 = FALSE]
           s1 == Push(s0, s0.cpu.pc)
       IN  IF s0.cpu.im \in {0, 1}
           THEN [s1 EXCEPT !.cpu.pc = 56, !.cpu.tstates = @ + 13]
           ELSE [s1 EXCEPT !.cpu.pc = ReadMemWord(s1, s0.cpu.i * 256),
                           !.cpu.tstates = @ + 19]

Interrupt(s) ==
  IF ~s.cpu.iff1 \/ s.cpu.enableInterruptsPending THEN s
  ELSE LET s0 == [s EXCEPT !.cpu.halted = FALSE, !.cpu.iff1 = FALSE, !.cpu.iff2 = FALSE]
           s1 == Push(s0, s0.cpu.pc)
       IN  IF s0.cpu.im = 0
           THEN [s1 EXCEPT !.cpu.pc = 56, !.cpu.tstates = @ + 13]
           ELSE IF s0.cpu.im = 1
           THEN [s1 EXCEPT !.cpu.pc = 56, !.cpu.tstates = @ + 13]
           ELSE [s1 EXCEPT !.cpu.pc = ReadMemWord(s1, s0.cpu.i * 256 + 255),
                           !.cpu.tstates = @ + 19]

(***************************************************************************)
(* ULA (src/src/spectrum/ula.js)                                           *)
(***************************************************************************)
TSTATES_PER_SCANLINE == 224
TOTAL_SCANLINES == 312

RECURSIVE AndBits(_, _, _)
AndBits(a, b, n) ==
  IF n < 0 THEN 0 ELSE Bit(a, n) * Bit(b, n) * (2 ^ n) + AndBits(a, b, n - 1)
BitAnd(a, b) == AndBits(a, b, 15)

\* earBit holds true after reset and 0 or 1 after setTapeInput; read() tests its
\* truthiness, so true is kept as 1
UlaReset(u) ==
  [u EXCEPT !.borderColor = 7, !.speakerState = FALSE, !.earBit = 1,
            !.keyboardState = [row \in 0..7 |-> 255],
            !.currentScanline = 0, !.scanlineTStates = 0,
            !.interruptRequested = FALSE, !.floatingBusValue = 255]

UlaNew ==
  [borderColor |-> 7, speakerState |-> FALSE, earBit |-> 1,
   keyboardState |-> [row \in 0..7 |-> 255],
   borderHistory |-> <<>>, frameStartBorderColor |-> 7, frameStartTState |-> 0,
   currentScanline |-> 0, scanlineTStates |-> 0,
   interruptRequested |-> FALSE, floatingBusValue |-> 255]

\* ULA.keyMatrix: key code -> <<row, column>>
keyMatrix ==
  "ShiftLeft" :> <<0, 0>> @@ "ShiftRight" :> <<0, 0>> @@ "KeyZ" :> <<0, 1>> @@ "KeyX" :> <<0, 2>> @@
  "KeyC" :> <<0, 3>> @@ "KeyV" :> <<0, 4>> @@ "KeyA" :> <<1, 0>> @@ "KeyS" :> <<1, 1>> @@
  "KeyD" :> <<1, 2>> @@ "KeyF" :> <<1, 3>> @@ "KeyG" :> <<1, 4>> @@ "KeyQ" :> <<2, 0>> @@
  "KeyW" :> <<2, 1>> @@ "KeyE" :> <<2, 2>> @@ "KeyR" :> <<2, 3>> @@ "KeyT" :> <<2, 4>> @@
  "Digit1" :> <<3, 0>> @@ "Digit2" :> <<3, 1>> @@ "Digit3" :> <<3, 2>> @@ "Digit4" :> <<3, 3>> @@
  "Digit5" :> <<3, 4>> @@ "Digit0" :> <<4, 0>> @@ "Digit9" :> <<4, 1>> @@ "Digit8" :> <<4, 2>> @@
  "Digit7" :> <<4, 3>> @@ "Digit6" :> <<4, 4>> @@ "KeyP" :> <<5, 0>> @@ "KeyO" :> <<5, 1>> @@
  "KeyI" :> <<5, 2>> @@ "KeyU" :> <<5, 3>> @@ "KeyY" :> <<5, 4>> @@ "Enter" :> <<6, 0>> @@
  "KeyL" :> <<6, 1>> @@ "KeyK" :> <<6, 2>> @@ "KeyJ" :> <<6, 3>> @@ "KeyH" :> <<6, 4>> @@
  "Space" :> <<7, 0>> @@ "ControlLeft" :> <<7, 1>> @@ "ControlRight" :> <<7, 1>> @@ "KeyM" :> <<7, 2>> @@
  "KeyN" :> <<7, 3>> @@ "KeyB" :> <<7, 4>> @@ "Period" :> <<7, 2>> @@ "Comma" :> <<7, 3>> @@
  "Backspace" :> <<0, 0>>

\* bit col of a byte cleared / set
ClearBit(v, col) == v - Bit(v, col) * (2 ^ col)
SetBit(v, col) == ClearBit(v, col) + 2 ^ col

UlaKeyDown(u, code) ==
  IF code \in DOMAIN keyMatrix
  THEN LET row == keyMatrix[code][1]
           col == keyMatrix[code][2]
       IN  [u EXCEPT !.keyboardState[row] = ClearBit(@, col)]
  ELSE u

UlaKeyUp(u, code) ==
  IF code \in DOMAIN keyMatrix
  THEN LET row == keyMatrix[code][1]
           col == keyMatrix[code][2]
       IN  [u EXCEPT !.keyboardState[row] = SetBit(@, col)]
  ELSE u

UlaReleaseAllKeys(u) == [u EXCEPT !.keyboardState = [row \in 0..7 |-> 255]]

\* ULA.read that answers 0xFF whatever the keyboard and the EAR input are
UlaReadNoEar(u, port) ==
  IF port % 2 = 0
  THEN LET keys == 255
       IN  [val |-> keys, ula |-> [u EXCEPT !.floatingBusValue = keys]]
  ELSE [val |-> u.floatingBusValue, ula |-> u]

RECURSIVE UlaReadRows(_, _, _, _)
UlaReadRows(u, highByte, row, result) ==
  IF row >= 8 THEN result
  ELSE UlaReadRows(u, highByte, row + 1,
         IF Bit(highByte, row) = 0 THEN BitAnd(result, u.keyboardState[row])
         ELSE result)

\* ULA.read yields [val, ula]
UlaRead(u, port) ==
  IF port % 2 = 0
  THEN LET highByte == (port \div 256) % 256
           keys == UlaReadRows(u, highByte, 0, 255)
           result == IF u.earBit # 0 THEN keys - Bit(keys, 6) * 64 + 64
                     ELSE keys - Bit(keys, 6) * 64
       IN  [val |-> result, ula |-> [u EXCEPT !.floatingBusValue = result]]
  ELSE [val |-> u.floatingBusValue, ula |-> u]

\* ULA.write that logs every write, whether the colour changes or not
UlaWriteLogsEvery(u, port0, value0, tstates) ==
  LET port == port0 % 256
      value == value0 % 256
      newBorderColor == value % 8
  IN  IF port % 2 = 0
      THEN [u EXCEPT !.borderHistory =
                       Append(@, [tstate |-> tstates - u.frameStartTState,
                                  color |-> newBorderColor]),
                     !.borderColor = newBorderColor,
                     !.speakerState = (Bit(value, 3) = 1) \/ (Bit(value, 4) = 1)]
      ELSE u

\* ULA.write; tstates is this.cpu.tstates at the call
UlaWrite(u, port0, value0, tstates) ==
  LET port == port0 % 256
      value == value0 % 256
      newBorderColor == value % 8
      u1 == IF newBorderColor # u.borderColor
            THEN [u EXCEPT !.borderHistory =
                             Append(@, [tstate |-> tstates - u.frameStartTState,
                                        color |-> newBorderColor]),
                           !.borderColor = newBorderColor]
            ELSE u
  IN  IF port % 2 = 0
      THEN [u1 EXCEPT !.speakerState = (Bit(value, 3) = 1) \/ (Bit(value, 4) = 1)]
      ELSE u

UlaSetTapeInput(u, bit) == [u EXCEPT !.earBit = IF bit # 0 THEN 1 ELSE 0]

UlaResetFrameTStates(u, tstates) ==
  [u EXCEPT !.frameStartBorderColor = u.borderColor,
            !.frameStartTState = tstates,
            !.borderHistory = <<>>]

RECURSIVE UlaAddCyclesLoop(_)
UlaAddCyclesLoop(u) ==
  IF u.scanlineTStates >= TSTATES_PER_SCANLINE
  THEN LET line == u.currentScanline + 1
       IN  UlaAddCyclesLoop(
             [u EXCEPT !.scanlineTStates = @ - TSTATES_PER_SCANLINE,
                       !.currentScanline = IF line >= TOTAL_SCANLINES THEN 0 ELSE line,
                       !.interruptRequested = IF line >= TOTAL_SCANLINES THEN TRUE ELSE @])
  ELSE u

UlaAddCycles(u, cycles) ==
  UlaAddCyclesLoop([u EXCEPT !.scanlineTStates = @ + cycles])

PortIn(s, port) ==
  LET rd == UlaRead(s.ula, W16(port))
  IN  [val |-> rd.val, s |-> [s EXCEPT !.ula = rd.ula]]

PortOut(s, port, val) ==
  [s EXCEPT !.ula = UlaWrite(s.ula, W16(port), W8(val), s.cpu.tstates)]

(***************************************************************************)
(* InstructionDecoder (src/unnamed/part_003) and the instruction tables    *)
(* (src/unnamed/part_005 base, src/unnamed/part_004 ED).  The tables are   *)
(* modelled for the opcodes of ModelledBase and ModelledED; a program of   *)
(* the model holds no other opcode.                                        *)
(***************************************************************************)
AddT(s, n) == [s EXCEPT !.cpu.tstates = @ + n]

ToSigned(val) == IF Bit(val, 7) = 1 THEN val - 256 ELSE val

\* fetchByte yields [byte, s]; it increments R on every byte it fetches
FetchByte(s) ==
  [byte |-> ReadMem(s, s.cpu.pc),
   s |-> [s EXCEPT !.cpu.pc = W16(@ + 1), !.cpu.r = IncR(@)]]

\* fetchWord yields [word, s]
FetchWord(s) ==
  LET low == FetchByte(s)
      high == FetchByte(low.s)
  IN  [word |-> high.byte * 256 + low.byte, s |-> high.s]

\* registers = ['b','c','d','e','h','l',null,'a']
GetReg(c, n) ==
  CASE n = 0 -> c.b [] n = 1 -> c.c [] n = 2 -> c.d [] n = 3 -> c.e
    [] n = 4 -> c.h [] n = 5 -> c.l [] n = 7 -> c.a
SetReg(c, n, v) ==
  CASE n = 0 -> [c EXCEPT !.b = v] [] n = 1 -> [c EXCEPT !.c = v]
    [] n = 2 -> [c EXCEPT !.d = v] [] n = 3 -> [c EXCEPT !.e = v]
    [] n = 4 -> [c EXCEPT !.h = v] [] n = 5 -> [c EXCEPT !.l = v]
    [] n = 7 -> [c EXCEPT !.a = v]

\* 0x01, 0x11, 0x21, 0x31: LD rp,nn
LdRpNn(s, rp) ==
  LET w == FetchWord(s)
      c == w.s.cpu
      c1 == CASE rp = 0 -> SetBC(c, w.word) [] rp = 1 -> SetDE(c, w.word)
              [] rp = 2 -> SetHL(c, w.word) [] rp = 3 -> [c EXCEPT !.sp = w.word]
  IN  AddT([w.s EXCEPT !.cpu = c1], 10)

\* 0x06 + 8*r: LD r,n
LdRN(s, reg) ==
  LET b == FetchByte(s)
  IN  AddT([b.s EXCEPT !.cpu = SetReg(b.s.cpu, reg, b.byte)], 7)

\* 0x40..0x7F: LD r,r' / LD r,(HL) / LD (HL),r
LdRR(s, dst, src) ==
  IF src = 6 THEN AddT([s EXCEPT !.cpu = SetReg(s.cpu, dst, ReadMem(s, GetHL(s.cpu)))], 7)
  ELSE IF dst = 6 THEN AddT(WriteMem(s, GetHL(s.cpu), GetReg(s.cpu, src)), 7)
  ELSE AddT([s EXCEPT !.cpu = SetReg(s.cpu, dst, GetReg(s.cpu, src))], 4)

\* 0x18: JR e
Jr(s) ==
  LET b == FetchByte(s)
  IN  AddT([b.s EXCEPT !.cpu.pc = W16(b.s.cpu.pc + ToSigned(b.byte) + 65536)], 12)

BitOr(a, b) == a + b - BitAnd(a, b)
BitXor(a, b) == a + b - 2 * BitAnd(a, b)

\* getParity: true for an even number of 1 bits
GetParity(val) ==
  (Bit(val, 0) + Bit(val, 1) + Bit(val, 2) + Bit(val, 3)
     + Bit(val, 4) + Bit(val, 5) + Bit(val, 6) + Bit(val, 7)) % 2 = 0

\* setArithmeticFlags yields the new F; H is taken from bit 4 of carry
SetArithmeticFlags(f, result, carry, overflow) ==
  LET f1 == SetFlag(f, FLAG_S, Bit(result, 7) = 1)
      f2 == SetFlag(f1, FLAG_Z, W8(result) = 0)
      f3 == SetFlag(f2, FLAG_Y, Bit(result, 5) = 1)
      f4 == SetFlag(f3, FLAG_H, Bit(carry, 4) = 1)
      f5 == SetFlag(f4, FLAG_X, Bit(result, 3) = 1)
      f6 == SetFlag(f5, FLAG_PV, overflow)
  IN  SetFlag(f6, FLAG_C, Bit(carry, 8) = 1)

\* setLogicalFlags yields the new F
SetLogicalFlags(f, result) ==
  LET f1 == SetFlag(f, FLAG_S, Bit(result, 7) = 1)
      f2 == SetFlag(f1, FLAG_Z, W8(result) = 0)
      f3 == SetFlag(f2, FLAG_Y, Bit(result, 5) = 1)
      f4 == SetFlag(f3, FLAG_H, FALSE)
      f5 == SetFlag(f4, FLAG_X, Bit(result, 3) = 1)
      f6 == SetFlag(f5, FLAG_PV, GetParity(result))
      f7 == SetFlag(f6, FLAG_N, FALSE)
  IN  SetFlag(f7, FLAG_C, FALSE)

\* the flags sub, sbc and cp set one by one; yx is the byte Y and X are copied from
SetSubtractFlags(f, result, halfBorrow, overflow, yx) ==
  LET f1 == SetFlag(f, FLAG_N, TRUE)
      f2 == SetFlag(f1, FLAG_S, Bit(result, 7) = 1)
      f3 == SetFlag(f2, FLAG_Z, W8(result) = 0)
      f4 == SetFlag(f3, FLAG_Y, Bit(yx, 5) = 1)
      f5 == SetFlag(f4, FLAG_H, halfBorrow)
      f6 == SetFlag(f5, FLAG_X, Bit(yx, 3) = 1)
      f7 == SetFlag(f6, FLAG_PV, overflow)
  IN  SetFlag(f7, FLAG_C, Bit(result, 8) = 1)

\* executeALU on the CPU record c; operation indexes
\* aluOps = ['add','adc','sub','sbc','and','xor','or','cp']
ExecuteALU(c, operation, value) ==
  LET cy == IF GetFlag(c.f, FLAG_C) THEN 1 ELSE 0
      sum == IF operation = 0 THEN c.a + value ELSE c.a + value + cy
      addOverflow == Bit(c.a, 7) # Bit(sum, 7) /\ Bit(value, 7) # Bit(sum, 7)
      diff == IF operation = 3 THEN c.a - value - cy ELSE c.a - value
      subOverflow == Bit(c.a, 7) # Bit(value, 7) /\ Bit(c.a, 7) # Bit(diff, 7)
      halfBorrow == IF operation = 3 THEN (c.a % 16) < ((value % 16) + cy)
                    ELSE (c.a % 16) < (value % 16)
      anded == BitAnd(c.a, value)
      xored == BitXor(c.a, value)
      ored == BitOr(c.a, value)
  IN  CASE operation \in {0, 1} ->
             [c EXCEPT !.a = W8(sum),
                       !.f = SetArithmeticFlags(SetFlag(c.f, FLAG_N, FALSE), W8(sum), sum, addOverflow)]
        [] operation \in {2, 3} ->
             [c EXCEPT !.a = W8(diff),
                       !.f = SetSubtractFlags(c.f, diff, halfBorrow, subOverflow, W8(diff))]
        [] operation = 4 ->
             [c EXCEPT !.a = anded, !.f = SetFlag(SetLogicalFlags(c.f, anded), FLAG_H, TRUE)]
        [] operation = 5 -> [c EXCEPT !.a = xored, !.f = SetLogicalFlags(c.f, xored)]
        [] operation = 6 -> [c EXCEPT !.a = ored, !.f = SetLogicalFlags(c.f, ored)]
        [] operation = 7 ->
             [c EXCEPT !.f = SetSubtractFlags(c.f, diff, halfBorrow, subOverflow, value)]

\* 0x80..0xBF: ALU A,r / ALU A,(HL)
AluR(s, operation, reg) ==
  IF reg = 6
  THEN [AddT(s, 7) EXCEPT !.cpu = ExecuteALU(AddT(s, 7).cpu, operation, ReadMem(s, GetHL(s.cpu)))]
  ELSE [AddT(s, 4) EXCEPT !.cpu = ExecuteALU(AddT(s, 4).cpu, operation, GetReg(s.cpu, reg))]

\* 0xC6 + 8*op: ALU A,n
AluN(s, operation) ==
  LET b == FetchByte(s)
  IN  AddT([b.s EXCEPT !.cpu = ExecuteALU(b.s.cpu, operation, b.byte)], 3)

\* conditions = [NZ, Z, NC, C, PO, PE, P, M]
Condition(c, cc) ==
  CASE cc = 0 -> ~GetFlag(c.f, FLAG_Z) [] cc = 1 -> GetFlag(c.f, FLAG_Z)
    [] cc = 2 -> ~GetFlag(c.f, FLAG_C) [] cc = 3 -> GetFlag(c.f, FLAG_C)
    [] cc = 4 -> ~GetFlag(c.f, FLAG_PV) [] cc = 5 -> GetFlag(c.f, FLAG_PV)
    [] cc = 6 -> ~GetFlag(c.f, FLAG_S) [] cc = 7 -> GetFlag(c.f, FLAG_S)

\* 0x20, 0x28, 0x30, 0x38: JR NZ / JR Z / JR NC / JR C
JrCc(s, cc) ==
  LET b == FetchByte(s)
  IN  IF Condition(b.s.cpu, cc)
      THEN AddT([b.s EXCEPT !.cpu.pc = W16(b.s.cpu.pc + ToSigned(b.byte) + 65536)], 12)
      ELSE AddT(b.s, 7)

\* 0xC1 + 16*rp: POP rp
PopRp(s, rp) ==
  LET p == Pop(s)
      c == p.s.cpu
      c1 == CASE rp = 3 -> SetAF(c, p.val) [] rp = 2 -> SetHL(c, p.val)
              [] rp = 1 -> SetDE(c, p.val) [] rp = 0 -> SetBC(c, p.val)
  IN  AddT([p.s EXCEPT !.cpu = c1], 10)

\* 0xC5 + 16*rp: PUSH rp
PushRp(s, rp) ==
  LET value == CASE rp = 3 -> GetAF(s.cpu) [] rp = 2 -> GetHL(s.cpu)
                 [] rp = 1 -> GetDE(s.cpu) [] rp = 0 -> GetBC(s.cpu)
  IN  AddT(Push(s, value), 11)

\* 0xC3: JP nn
JpNn(s) ==
  LET w == FetchWord(s) IN AddT([w.s EXCEPT !.cpu.pc = w.word], 10)

\* 0xC9: RET
Ret(s) ==
  LET p == Pop(s) IN AddT([p.s EXCEPT !.cpu.pc = p.val], 10)

\* 0xCD: CALL nn
CallNn(s) ==
  LET w == FetchWord(s)
      s1 == Push(w.s, w.s.cpu.pc)
  IN  AddT([s1 EXCEPT !.cpu.pc = w.word], 17)

\* 0xC7 + 8*t: RST t*8
Rst(s, t) ==
  LET s1 == Push(s, s.cpu.pc) IN AddT([s1 EXCEPT !.cpu.pc = t * 8], 11)

\* 0xD3: OUT (n),A
OutNA(s) ==
  LET b == FetchByte(s)
  IN  AddT(PortOut(b.s, b.s.cpu.a * 256 + b.byte, b.s.cpu.a), 11)

\* 0xDB: IN A,(n)
InAN(s) ==
  LET b == FetchByte(s)
      rd == PortIn(b.s, b.s.cpu.a * 256 + b.byte)
  IN  AddT([rd.s EXCEPT !.cpu.a = rd.val], 11)

\* 0xF3: DI
Di(s) == AddT([s EXCEPT !.cpu.iff1 = FALSE, !.cpu.iff2 = FALSE], 4)

\* 0xFB: EI
Ei(s) == AddT([s EXCEPT !.cpu.enableInterruptsPending = TRUE], 4)

\* 0x76: HALT
Halt(s) == AddT([s EXCEPT !.cpu.halted = TRUE], 4)

\* ED 45/55/65/75 RETN and ED 4D/5D/6D/7D RETI: the same body
RetnReti(s) ==
  LET s1 == [s EXCEPT !.cpu.iff1 = s.cpu.iff2]
      p == Pop(s1)
  IN  AddT([p.s EXCEPT !.cpu.pc = p.val], 14)

\* ED 46/4E/66/6E IM 0, ED 56/76 IM 1, ED 5E/7E IM 2
ImN(s, mode) == AddT([s EXCEPT !.cpu.im = mode], 8)

\* ED 47: LD I,A
LdIA(s) == AddT([s EXCEPT !.cpu.i = s.cpu.a], 9)

\* LDIR that never repeats: one byte, PC left after the instruction
LdirOnce(s) ==
  LET s1 == WriteMem(s, GetDE(s.cpu), ReadMem(s, GetHL(s.cpu)))
      c1 == SetHL(s1.cpu, W16(GetHL(s1.cpu) + 1))
      c2 == SetDE(c1, W16(GetDE(c1) + 1))
      c3 == SetBC(c2, W16(GetBC(c2) + 65535))
  IN  [s1 EXCEPT !.cpu = [c3 EXCEPT !.tstates = @ + 16]]

\* ED B0: LDIR, one iteration per executeInstruction
Ldir(s) ==
  LET val == ReadMem(s, GetHL(s.cpu))
      s1 == WriteMem(s, GetDE(s.cpu), val)
      c1 == SetHL(s1.cpu, W16(GetHL(s1.cpu) + 1))
      c2 == SetDE(c1, W16(GetDE(c1) + 1))
      c3 == SetBC(c2, W16(GetBC(c2) + 65535))
      c4 == IF GetBC(c3) # 0
            THEN [c3 EXCEPT !.pc = W16(c3.pc + 65534), !.tstates = @ + 21]
            ELSE [c3 EXCEPT !.tstates = @ + 16]
      n == val + c4.a
      f1 == SetFlag(c4.f, FLAG_H, FALSE)
      f2 == SetFlag(f1, FLAG_PV, FALSE)
      f3 == SetFlag(f2, FLAG_N, FALSE)
      f4 == SetFlag(f3, FLAG_Y, Bit(n, 1) = 1)
      f5 == SetFlag(f4, FLAG_X, Bit(n, 3) = 1)
  IN  [s1 EXCEPT !.cpu = [c4 EXCEPT !.f = f5]]

\* the opcodes edInstructionTable defines
EdDefined ==
  ((64..127) \ {119, 127}) \cup (160..163) \cup (168..171) \cup (176..179) \cup (184..187)

RetnOpcodes == {69, 85, 101, 117}
RetiOpcodes == {77, 93, 109, 125}
Im0Opcodes == {70, 78, 102, 110}
Im1Opcodes == {86, 118}
Im2Opcodes == {94, 126}

ModelledED ==
  RetnOpcodes \cup RetiOpcodes \cup Im0Opcodes \cup Im1Opcodes \cup Im2Opcodes
    \cup {71, 176} \cup ((0..255) \ EdDefined)

ExecuteED(s) ==
  LET b == FetchByte(s)
      o == b.byte
  IN  IF o \notin EdDefined THEN AddT(b.s, 8)
      ELSE CASE o \in RetnOpcodes \cup RetiOpcodes -> RetnReti(b.s)
             [] o \in Im0Opcodes -> ImN(b.s, 0)
             [] o \in Im1Opcodes -> ImN(b.s, 1)
             [] o \in Im2Opcodes -> ImN(b.s, 2)
             [] o = 71 -> LdIA(b.s)
             [] o = 176 -> Ldir(b.s)

(***************************************************************************)
(* CB table (src/unnamed/part_006) and the DD / FD prefixes                *)
(***************************************************************************)
\* rotateOps[rotateNames[operation]] yields [result, f];
\* rotateNames = ['rlc','rrc','rl','rr','sla','sra','sll','srl']
RotateOp(f, operation, value) ==
  LET oldCarry == IF GetFlag(f, FLAG_C) THEN 1 ELSE 0
      result == CASE operation = 0 -> W8(value * 2 + Bit(value, 7))
                  [] operation = 1 -> (value \div 2) + Bit(value, 0) * 128
                  [] operation = 2 -> W8(value * 2 + oldCarry)
                  [] operation = 3 -> (value \div 2) + oldCarry * 128
                  [] operation = 4 -> W8(value * 2)
                  [] operation = 5 -> (value \div 2) + Bit(value, 7) * 128
                  [] operation = 6 -> W8(value * 2 + 1)
                  [] operation = 7 -> value \div 2
      carry == IF operation \in {0, 2, 4, 6} THEN Bit(value, 7) ELSE Bit(value, 0)
  IN  [result |-> result, f |-> SetFlag(SetLogicalFlags(f, result), FLAG_C, carry = 1)]

\* cbInstructionTable[opcode] for 0x00..0x3F: rotate/shift of a register or of (HL)
CbRotate(s, opcode) ==
  LET operation == opcode \div 8
      reg == opcode % 8
      addr == GetHL(s.cpu)
      m == RotateOp(s.cpu.f, operation, ReadMem(s, addr))
      r == RotateOp(s.cpu.f, operation, GetReg(s.cpu, reg))
  IN  IF reg = 6
      THEN AddT(WriteMem([s EXCEPT !.cpu.f = m.f], addr, m.result), 15)
      ELSE AddT([s EXCEPT !.cpu = [SetReg(s.cpu, reg, r.result) EXCEPT !.f = r.f]], 8)

\* BIT b,(IX+d) / BIT b,(IY+d): the flags
IndexedBitFlags(f, bit, value, addr) ==
  LET bitValue == Bit(value, bit)
      f1 == SetFlag(f, FLAG_Z, bitValue = 0)
      f2 == SetFlag(f1, FLAG_PV, bitValue = 0)
      f3 == SetFlag(f2, FLAG_H, TRUE)
      f4 == SetFlag(f3, FLAG_N, FALSE)
      f5 == SetFlag(f4, FLAG_S, bit = 7 /\ bitValue = 1)
      f6 == SetFlag(f5, FLAG_Y, Bit(addr \div 256, 5) = 1)
  IN  SetFlag(f6, FLAG_X, Bit(addr \div 256, 3) = 1)

\* ddcbInstructionTable[opcode] / fdcbInstructionTable[opcode] with index = cpu.ix / cpu.iy
IndexedCb(s, index, opcode, offset) ==
  LET addr == W16(index + ToSigned(offset) + 65536)
      value == ReadMem(s, addr)
      operation == opcode \div 64
      bit == (opcode \div 8) % 8
      reg == opcode % 8
      res == value - Bit(value, bit) * (2 ^ bit)
      set == value + (1 - Bit(value, bit)) * (2 ^ bit)
      oldHL == GetHL(s.cpu)
      s1 == CbRotate([s EXCEPT !.cpu = SetHL(s.cpu, addr)], opcode)
      rotated == ReadMem(s1, addr)
      c1 == [SetHL(s1.cpu, oldHL) EXCEPT !.pc = s.cpu.pc]
  IN  CASE operation = 1 ->
             AddT([s EXCEPT !.cpu.f = IndexedBitFlags(s.cpu.f, bit, value, addr)], 20)
        [] operation = 2 ->
             AddT([WriteMem(s, addr, res) EXCEPT
                     !.cpu = IF reg # 6 THEN SetReg(s.cpu, reg, res) ELSE s.cpu], 23)
        [] operation = 3 ->
             AddT([WriteMem(s, addr, set) EXCEPT
                     !.cpu = IF reg # 6 THEN SetReg(s.cpu, reg, set) ELSE s.cpu], 23)
        [] operation = 0 ->
             AddT([s1 EXCEPT !.cpu = IF reg # 6 THEN SetReg(c1, reg, rotated) ELSE c1], 8)

\* the opcodes ddInstructionTable and fdInstructionTable define (the same set)
IndexedDefined ==
  {9, 25, 33, 34, 35, 36, 37, 38, 41, 42, 43, 44, 45, 46, 52, 53, 54, 57,
   68, 69, 70, 76, 77, 78, 84, 85, 86, 92, 93, 94, 96, 97, 98, 99, 100, 101, 102,
   103, 104, 105, 106, 107, 108, 109, 110, 111, 112, 113, 114, 115, 116, 117, 119,
   124, 125, 126, 132, 133, 134, 140, 141, 142, 148, 149, 150, 156, 157, 158,
   164, 165, 166, 172, 173, 174, 180, 181, 182, 188, 189, 190,
   225, 227, 229, 233, 249}

\* of these the model holds LD IX,nn / LD IY,nn (0x21)
ModelledIndexed == {33}

RECURSIVE ExecuteOpcode(_, _)

\* DD 21 / FD 21: LD IX,nn / LD IY,nn
LdIxNn(s) == LET w == FetchWord(s) IN AddT([w.s EXCEPT !.cpu.ix = w.word], 14)
LdIyNn(s) == LET w == FetchWord(s) IN AddT([w.s EXCEPT !.cpu.iy = w.word], 14)

ExecuteDD(s) ==
  LET b == FetchByte(s)
      offset == FetchByte(b.s)
      subOpcode == FetchByte(offset.s)
  IN  IF b.byte = 203
      THEN IndexedCb(subOpcode.s, subOpcode.s.cpu.ix, subOpcode.byte, offset.byte)
      ELSE IF b.byte \notin IndexedDefined THEN ExecuteOpcode(b.byte, b.s)
      ELSE CASE b.byte = 33 -> LdIxNn(b.s)

ExecuteFD(s) ==
  LET b == FetchByte(s)
      offset == FetchByte(b.s)
      subOpcode == FetchByte(offset.s)
  IN  IF b.byte = 203
      THEN IndexedCb(subOpcode.s, subOpcode.s.cpu.iy, subOpcode.byte, offset.byte)
      ELSE IF b.byte \notin IndexedDefined THEN ExecuteOpcode(b.byte, b.s)
      ELSE CASE b.byte = 33 -> LdIyNn(b.s)

LdRpNnOpcodes == {1, 17, 33, 49}
LdRNOpcodes == {6, 14, 22, 30, 38, 46, 62}
LdRROpcodes == (64..127) \ {118}
PopOpcodes == {193, 209, 225, 241}
PushOpcodes == {197, 213, 229, 245}
RstOpcodes == {199, 207, 215, 223, 231, 239, 247, 255}

JrCcOpcodes == {32, 40, 48, 56}
AluROpcodes == 128..191
AluNOpcodes == {198, 206, 214, 222, 230, 238, 246, 254}

ModelledBase ==
  {0, 24, 118, 195, 201, 205, 211, 219, 221, 237, 243, 251, 253}
    \cup LdRpNnOpcodes \cup LdRNOpcodes \cup LdRROpcodes
    \cup PopOpcodes \cup PushOpcodes \cup RstOpcodes
    \cup JrCcOpcodes \cup AluROpcodes \cup AluNOpcodes

ExecuteOpcode(o, s) ==
  CASE o = 0 -> AddT(s, 4)
    [] o \in LdRpNnOpcodes -> LdRpNn(s, o \div 16)
    [] o \in LdRNOpcodes -> LdRN(s, o \div 8)
    [] o = 24 -> Jr(s)
    [] o \in JrCcOpcodes -> JrCc(s, (o - 32) \div 8)
    [] o \in AluROpcodes -> AluR(s, (o - 128) \div 8, o % 8)
    [] o \in AluNOpcodes -> AluN(s, (o - 198) \div 8)
    [] o = 221 -> ExecuteDD(s)
    [] o = 253 -> ExecuteFD(s)
    [] o \in LdRROpcodes -> LdRR(s, (o - 64) \div 8, o % 8)
    [] o = 118 -> Halt(s)
    [] o \in PopOpcodes -> PopRp(s, (o - 193) \div 16)
    [] o \in PushOpcodes -> PushRp(s, (o - 197) \div 16)
    [] o \in RstOpcodes -> Rst(s, (o - 199) \div 8)
    [] o = 195 -> JpNn(s)
    [] o = 201 -> Ret(s)
    [] o = 205 -> CallNn(s)
    [] o = 211 -> OutNA(s)
    [] o = 219 -> InAN(s)
    [] o = 237 -> ExecuteED(s)
    [] o = 243 -> Di(s)
    [] o = 251 -> Ei(s)

ExecuteInstruction(s) ==
  IF s.cpu.halted THEN AddT(s, 4)
  ELSE LET b == FetchByte(s)
           s1 == ExecuteOpcode(b.byte, b.s)
       IN  IF s1.cpu.enableInterruptsPending
           THEN [s1 EXCEPT !.cpu.iff1 = TRUE, !.cpu.iff2 = TRUE,
                           !.cpu.enableInterruptsPending = FALSE]
           ELSE s1

\* the instruction at addr is one the model holds
RECURSIVE ModelledAt(_, _)
ModelledAt(s, addr) ==
  LET o == ReadMem(s, addr)
      o2 == ReadMem(s, W16(addr + 1))
  IN  /\ o \in ModelledBase
      /\ o = 237 => o2 \in ModelledED
      /\ o \in {221, 253} =>
            \/ o2 = 203
            \/ o2 \in ModelledIndexed
            \/ o2 \notin IndexedDefined /\ ModelledAt(s, W16(addr + 1))

\* the instruction at PC is one the model holds
Modelled(s) == s.cpu.halted \/ ModelledAt(s, s.cpu.pc)

\* the name of what executeInstruction is about to execute, for the history
InstrName(s) ==
  LET o == ReadMem(s, s.cpu.pc)
      e == ReadMem(s, W16(s.cpu.pc + 1))
  IN  IF s.cpu.halted THEN "halted"
      ELSE IF o = 251 THEN "EI"
      ELSE IF o = 243 THEN "DI"
      ELSE IF o = 237 /\ e \in RetnOpcodes THEN "RETN"
      ELSE IF o = 237 /\ e \in RetiOpcodes THEN "RETI"
      ELSE IF o = 237 /\ e = 176 THEN "LDIR"
      ELSE IF o = 219 THEN "IN"
      ELSE IF o = 211 THEN "OUT"
      ELSE "other"

(***************************************************************************)
(* Tape: block records as the TZX parsers build them, and the player       *)
(***************************************************************************)
PILOT_PULSE == 2168
SYNC1_PULSE == 667
SYNC2_PULSE == 735
ZERO_PULSE == 855
ONE_PULSE == 1710
PILOT_PULSES_HEADER == 8063
PILOT_PULSES_DATA == 3223
CYCLES_PER_MS == 3500

BLOCK_STANDARD == 16
BLOCK_TURBO == 17
BLOCK_PURE_TONE == 18
BLOCK_PULSE_SEQUENCE == 19
BLOCK_PURE_DATA == 20
BLOCK_DIRECT_RECORDING == 21
BLOCK_PAUSE == 32
BLOCK_JUMP == 35
BLOCK_LOOP_START == 36
BLOCK_LOOP_END == 37
BLOCK_STOP_TAPE_48K == 42

\* nextEdgeCycle = Infinity: no edge is ever due
Infinity == -1

\* currentBlock = null, and blocks[i] for an index outside the array
NoBlock == [type |-> 0]

\* data is the block's byte sequence; data[0] of the code is data[1] here
StandardBlock(pause, data) ==
  [type |-> BLOCK_STANDARD, data |-> data,
   pilotPulse |-> PILOT_PULSE, sync1Pulse |-> SYNC1_PULSE, sync2Pulse |-> SYNC2_PULSE,
   zeroPulse |-> ZERO_PULSE, onePulse |-> ONE_PULSE,
   pilotPulses |-> IF (IF Len(data) > 0 THEN data[1] ELSE 0) < 128
                   THEN PILOT_PULSES_HEADER ELSE PILOT_PULSES_DATA,
   pause |-> pause, usedBits |-> 8]

TurboBlock(pilotPulse, sync1Pulse, sync2Pulse, zeroPulse, onePulse, pilotPulses, usedBits, pause, data) ==
  [type |-> BLOCK_TURBO, data |-> data,
   pilotPulse |-> pilotPulse, sync1Pulse |-> sync1Pulse, sync2Pulse |-> sync2Pulse,
   zeroPulse |-> zeroPulse, onePulse |-> onePulse, pilotPulses |-> pilotPulses,
   pause |-> pause, usedBits |-> usedBits]

PureToneBlock(pulseLength, pulseCount) ==
  [type |-> BLOCK_PURE_TONE, pulseLength |-> pulseLength, pulseCount |-> pulseCount]

PureDataBlock(zeroPulse, onePulse, usedBits, pause, data) ==
  [type |-> BLOCK_PURE_DATA, data |-> data, zeroPulse |-> zeroPulse,
   onePulse |-> onePulse, usedBits |-> usedBits, pause |-> pause]

PulseSequenceBlock(pulses) == [type |-> BLOCK_PULSE_SEQUENCE, pulses |-> pulses]

DirectRecordingBlock(tStatesPerSample, pause, usedBits, data) ==
  [type |-> BLOCK_DIRECT_RECORDING, data |-> data, tStatesPerSample |-> tStatesPerSample,
   pause |-> pause, usedBits |-> usedBits]

PauseBlock(pause) == [type |-> BLOCK_PAUSE, pause |-> pause]

\* the 16-bit word of the file is read as a signed offset
JumpBlock(jumpOffset) ==
  [type |-> BLOCK_JUMP,
   jumpOffset |-> IF jumpOffset > 32767 THEN jumpOffset - 65536 ELSE jumpOffset]

LoopStartBlock(repetitions) == [type |-> BLOCK_LOOP_START, repetitions |-> repetitions]
LoopEndBlock == [type |-> BLOCK_LOOP_END]
StopTape48kBlock == [type |-> BLOCK_STOP_TAPE_48K]

HasData(b) == "data" \in DOMAIN b

TapeReset(t) ==
  [t EXCEPT !.state = "IDLE", !.currentBlock = NoBlock, !.lastEarBit = 0,
            !.nextEdgeCycle = 0, !.pulseCount = 0, !.edgeCount = 0,
            !.bitPosition = 0, !.bytePosition = 0, !.currentBit = 0,
            !.pauseCycles = 0, !.pulseIndex = 0]

\* the constructor followed by loadTZX / loadTAP of the parsed blocks;
\* thrown is the exception a call on the tape has raised
TapeNew(blocks) ==
  [blocks |-> blocks, currentBlock |-> NoBlock, blockIndex |-> 0,
   playing |-> FALSE, paused |-> FALSE,
   bitPosition |-> 0, bytePosition |-> 0, currentBit |-> 0, lastEarBit |-> 0,
   nextEdgeCycle |-> 0, lastUpdateCycle |-> 0,
   state |-> "IDLE", pulseCount |-> 0, edgeCount |-> 0, pauseCycles |-> 0,
   pulseIndex |-> 0, pulseSequence |-> <<>>, loopStack |-> <<>>, thrown |-> "none"]

TapePause(t) == [t EXCEPT !.paused = TRUE]

TapeStop(t) ==
  TapeReset([t EXCEPT !.playing = FALSE, !.paused = FALSE, !.blockIndex = 0])

TapeRewind(t) == [TapeStop(t) EXCEPT !.blockIndex = 0]

\* the Loop end case with a loop that always ends at its first Loop end
NextBlockLoopEndOnce(t1) ==
  IF Len(t1.loopStack) > 0
  THEN [t1 EXCEPT !.loopStack = SubSeq(@, 1, Len(t1.loopStack) - 1)]
  ELSE t1

\* the Loop end case of nextBlock, up to its nested nextBlock call
NextBlockLoopEnd(t1) ==
  IF Len(t1.loopStack) > 0
  THEN LET n == Len(t1.loopStack)
           loop == [t1.loopStack[n] EXCEPT !.counter = @ - 1]
       IN  IF loop.counter > 0
           THEN [t1 EXCEPT !.loopStack[n] = loop, !.blockIndex = loop.blockIndex + 1]
           ELSE [t1 EXCEPT !.loopStack = SubSeq(@, 1, n - 1)]
  ELSE t1

\* nextBlock; now is cpu.cycles. seen holds the (blockIndex, loopStack) pairs
\* the chain of nested nextBlock calls has started from: the calls depend on
\* nothing else, so meeting one again is unbounded recursion (RangeError).
RECURSIVE NextBlockFrom(_, _, _)
NextBlockFrom(t, now, seen) ==
  IF t.blockIndex >= Len(t.blocks) THEN TapeStop(t)
  ELSE IF t.blockIndex < 0
  THEN [t EXCEPT !.currentBlock = NoBlock, !.thrown = "TypeError"]
  ELSE IF <<t.blockIndex, t.loopStack>> \in seen
  THEN [t EXCEPT !.thrown = "RangeError"]
  ELSE
    LET b == t.blocks[t.blockIndex + 1]
        seen1 == seen \cup {<<t.blockIndex, t.loopStack>>}
        t1 == [t EXCEPT !.currentBlock = b, !.blockIndex = @ + 1,
                        !.bitPosition = 0, !.bytePosition = 0, !.pulseCount = 0,
                        !.edgeCount = 0, !.pulseIndex = 0]
    IN  IF HasData(b) /\ Len(b.data) = 0
        THEN \* flagByte = data[0] is undefined and flagByte.toString throws
             [t EXCEPT !.currentBlock = b, !.thrown = "TypeError"]
        ELSE CASE b.type \in {BLOCK_STANDARD, BLOCK_TURBO} ->
                    [t1 EXCEPT !.state = "PILOT", !.nextEdgeCycle = now + b.pilotPulse]
               [] b.type = BLOCK_PURE_TONE ->
                    [t1 EXCEPT !.state = "PURE_TONE", !.edgeCount = 0,
                               !.nextEdgeCycle = now + b.pulseLength]
               [] b.type = BLOCK_PULSE_SEQUENCE ->
                    [t1 EXCEPT !.state = "PULSE_SEQUENCE", !.pulseIndex = 0,
                               !.pulseSequence = b.pulses,
                               !.nextEdgeCycle = now + b.pulses[1]]
               [] b.type = BLOCK_DIRECT_RECORDING ->
                    [t1 EXCEPT !.state = "DIRECT_RECORDING", !.bitPosition = 0,
                               !.bytePosition = 0,
                               !.nextEdgeCycle = now + b.tStatesPerSample]
               [] b.type = BLOCK_PURE_DATA ->
                    LET bit == Bit(b.data[1], 7)
                    IN  [t1 EXCEPT !.state = "DATA", !.currentBit = bit,
                                   !.nextEdgeCycle = now + (IF bit = 1 THEN b.onePulse
                                                            ELSE b.zeroPulse)]
               [] b.type = BLOCK_PAUSE ->
                    LET t2 == [t1 EXCEPT !.state = "PAUSE",
                                         !.pauseCycles = b.pause * CYCLES_PER_MS]
                    IN  IF b.pause = 0 THEN TapeStop(t2) ELSE t2
               [] b.type = BLOCK_LOOP_START ->
                    NextBlockFrom(
                      [t1 EXCEPT !.loopStack =
                         Append(@, [blockIndex |-> t1.blockIndex - 1,
                                    counter |-> b.repetitions])],
                      now, seen1)
               [] b.type = BLOCK_LOOP_END ->
                    NextBlockFrom(NextBlockLoopEnd(t1), now, seen1)
               [] b.type = BLOCK_JUMP ->
                    NextBlockFrom([t1 EXCEPT !.blockIndex = @ + b.jumpOffset], now, seen1)
               [] b.type = BLOCK_STOP_TAPE_48K -> TapeStop(t1)
               [] OTHER -> NextBlockFrom(t1, now, seen1)

NextBlock(t, now) == NextBlockFrom(t, now, {})

TapePlay(t, now) ==
  IF Len(t.blocks) = 0 THEN t
  ELSE LET t1 == [t EXCEPT !.playing = TRUE, !.paused = FALSE, !.lastUpdateCycle = now]
       IN  IF t1.currentBlock = NoBlock THEN NextBlock(t1, now) ELSE t1

\* handleBlockEnd with a millisecond of 1000 T-states
HandleBlockEndShort(t, now) ==
  IF t.currentBlock.pause > 0
  THEN [t EXCEPT !.state = "PAUSE", !.pauseCycles = t.currentBlock.pause * 1000,
                 !.nextEdgeCycle = Infinity]
  ELSE NextBlock(t, now)

HandleBlockEnd(t, now) ==
  IF t.currentBlock.pause > 0
  THEN [t EXCEPT !.state = "PAUSE",
                 !.pauseCycles = t.currentBlock.pause * CYCLES_PER_MS,
                 !.nextEdgeCycle = Infinity]
  ELSE NextBlock(t, now)

PulseLength(bit, block) == IF bit = 1 THEN block.onePulse ELSE block.zeroPulse

\* processEdge (Standard and Turbo blocks); block is the block updateDataBlock
\* captured on entry
ProcessEdge(t, cycles, block, now) ==
  CASE t.state = "PILOT" ->
         LET t1 == [t EXCEPT !.nextEdgeCycle = @ + block.pilotPulse, !.edgeCount = @ + 1]
         IN  IF t1.edgeCount >= block.pilotPulses * 2
             THEN [t1 EXCEPT !.state = "SYNC1", !.nextEdgeCycle = cycles + block.sync1Pulse]
             ELSE t1
    [] t.state = "SYNC1" ->
         [t EXCEPT !.state = "SYNC2", !.nextEdgeCycle = cycles + block.sync2Pulse]
    [] t.state = "SYNC2" ->
         LET t1 == [t EXCEPT !.state = "DATA", !.bytePosition = 0, !.bitPosition = 0,
                             !.pulseCount = 0]
         IN  IF Len(block.data) > 0
             THEN LET bit == Bit(block.data[1], 7)
                  IN  [t1 EXCEPT !.currentBit = bit,
                                 !.nextEdgeCycle = cycles + PulseLength(bit, block)]
             ELSE HandleBlockEnd(t1, now)
    [] t.state = "DATA" ->
         IF t.pulseCount + 1 < 2
         THEN [t EXCEPT !.pulseCount = @ + 1,
                        !.nextEdgeCycle = cycles + PulseLength(t.currentBit, block)]
         ELSE LET wrap == t.bitPosition + 1 >= 8
                  t1 == [t EXCEPT !.pulseCount = 0,
                                  !.bitPosition = IF wrap THEN 0 ELSE @ + 1,
                                  !.bytePosition = IF wrap THEN @ + 1 ELSE @]
              IN  IF wrap /\ t1.bytePosition >= Len(block.data)
                  THEN HandleBlockEnd(t1, now)
                  ELSE LET isLastByte == t1.bytePosition = Len(block.data) - 1
                           bitsInByte == IF isLastByte THEN block.usedBits ELSE 8
                       IN  IF t1.bitPosition < bitsInByte
                           THEN LET bit == Bit(block.data[t1.bytePosition + 1],
                                               7 - t1.bitPosition)
                                IN  [t1 EXCEPT !.currentBit = bit,
                                               !.nextEdgeCycle =
                                                 cycles + PulseLength(bit, block)]
                           ELSE HandleBlockEnd(t1, now)
    [] OTHER -> t

\* the while loop of updateDataBlock: an exception ends it
RECURSIVE UpdateDataBlockLoop(_, _, _, _)
UpdateDataBlockLoop(t, cycles, block, now) ==
  IF /\ t.thrown = "none"
     /\ t.nextEdgeCycle # Infinity /\ cycles >= t.nextEdgeCycle
     /\ t.state # "PAUSE" /\ t.state # "IDLE"
  THEN UpdateDataBlockLoop(
         ProcessEdge([t EXCEPT !.lastEarBit = 1 - @], cycles, block, now),
         cycles, block, now)
  ELSE t

UpdateDataBlock(t, cycles, now) == UpdateDataBlockLoop(t, cycles, t.currentBlock, now)

UpdatePauseState(t, cycles, now) ==
  IF t.pauseCycles > 0
  THEN LET elapsed == cycles - t.lastUpdateCycle
           t1 == [t EXCEPT !.pauseCycles = @ - elapsed, !.lastEarBit = 0]
       IN  IF t1.pauseCycles <= 0
           THEN NextBlock([t1 EXCEPT !.pauseCycles = 0, !.state = "IDLE"], now)
           ELSE t1
  ELSE NextBlock([t EXCEPT !.state = "IDLE"], now)

\* update without the test of paused
TapeUpdateWhilePaused(t, cycles, now) ==
  IF ~t.playing \/ t.currentBlock = NoBlock THEN t
  ELSE LET t1 == IF t.state = "PAUSE" THEN UpdatePauseState(t, cycles, now)
                 ELSE IF t.currentBlock.type \in {BLOCK_STANDARD, BLOCK_TURBO}
                 THEN UpdateDataBlock(t, cycles, now)
                 ELSE IF t.currentBlock.type = BLOCK_PAUSE
                 THEN UpdatePauseState(t, cycles, now)
                 ELSE t
       IN  IF t1.thrown = "none" THEN [t1 EXCEPT !.lastUpdateCycle = cycles] ELSE t1

\* update(cycles); the bit returned is lastEarBit of the result. An exception
\* leaves lastUpdateCycle as it was.
TapeUpdate(t, cycles, now) ==
  IF ~t.playing \/ t.paused \/ t.currentBlock = NoBlock THEN t
  ELSE LET t1 == IF t.state = "PAUSE" THEN UpdatePauseState(t, cycles, now)
                 ELSE IF t.currentBlock.type \in {BLOCK_STANDARD, BLOCK_TURBO}
                 THEN UpdateDataBlock(t, cycles, now)
                 ELSE IF t.currentBlock.type = BLOCK_PAUSE
                 THEN UpdatePauseState(t, cycles, now)
                 ELSE t
       IN  IF t1.thrown = "none" THEN [t1 EXCEPT !.lastUpdateCycle = cycles] ELSE t1

(***************************************************************************)
(* Programs and ROM images the specifications start from                   *)
(***************************************************************************)
Load(base, bytes) == [a \in base..(base + Len(bytes) - 1) |-> bytes[a - base + 1]]

\* every ROM image boots with DI; JP 0x4000 and differs in the handler at 0x0038
RomBoot == Load(0, <<243, 195, 0, 64>>)
RomEiReti == RomBoot @@ Load(56, <<251, 237, 77>>)          \* EI; RETI
RomPushPop == RomBoot @@ Load(56, <<197, 193, 251, 201>>)    \* PUSH BC; POP BC; EI; RET
RomRetn == RomBoot @@ Load(56, <<237, 69>>)                   \* RETN
RomImages == {RomEiReti, RomPushPop, RomRetn}

\* RAM images, indexed by RAM offset (address - 0x4000)
\* IM 1; EI; HALT; JR -3
ProgIm1 == Load(0, <<237, 86, 251, 118, 24, 253>>)
\* LD A,0x80; LD I,A; IM 2; EI; HALT; JR -3, vector at 0x80FF -> 0x4020: PUSH AF; POP AF; RETI
ProgIm2 ==
  Load(0, <<62, 128, 237, 71, 237, 94, 251, 118, 24, 253>>)
    @@ Load(16639, <<32, 64>>) @@ Load(32, <<245, 241, 237, 77>>)
\* LD SP,0x4001; LD HL,0x4000; LD DE,0x3FFE; LD BC,3; LDIR; PUSH HL; LD (HL),A; CALL 0x0000
ProgLdir ==
  Load(0, <<49, 1, 64, 33, 0, 64, 17, 254, 63, 1, 3, 0, 237, 176, 229, 119, 205, 0, 0>>)
\* LD A,2; OUT (0xFE),A; IN A,(0xFE); EI; NOP; DI; RST 0x38
ProgIo == Load(0, <<62, 2, 211, 254, 219, 254, 251, 0, 243, 255>>)
\* EI; EI; DI; EI; ED 00 (undefined); LD SP,0x0001; RST 0x38
ProgEiDi == Load(0, <<251, 251, 243, 251, 237, 0, 49, 1, 0, 255>>)
Programs == {ProgIm1, ProgIm2, ProgLdir, ProgIo, ProgEiDi}

MemNew(romImage, ramImage) == [rom |-> romImage, ram |-> ramImage, ula |-> FALSE]

TapeIdle == TapeNew(<<>>)
\* executeFrame is not running; frames counts the calls that have returned
FrameIdle ==
  [pc |-> "idle", targetTStates |-> 0, startTStates |-> 0, tStatesBefore |-> 0, frames |-> 0]
HistNew ==
  [steps |-> 0, ints |-> 0,
   accepted |-> FALSE,   \* an interrupt has been accepted
   retSince |-> FALSE,   \* RETN or RETI has executed since the last acceptance
   eiSince |-> FALSE,    \* EI has executed since the last acceptance
   romLoaded |-> <<>>,   \* the ROM bytes as the last loadROM left them
   bus |-> 0,            \* direct calls made on the memory, the ULA and the tape
   busAddr |-> 0,        \* the address given to the call, if it was the last step
   blockStart |-> 0,     \* cpu.tstates when play() started the first block
   blockEnd |-> 0,       \* cpu.tstates of the update that entered the last pause
   played |-> <<>>,      \* indices of the blocks started since play(), in order
   lastReturned |-> -1,  \* the bit the previous update returned (-1: no update yet)
   resetSince |-> FALSE, \* stop() or rewind() has been called since that update
   saved |-> [rp |-> 0, value |-> 0, sp |-> 0]]  \* rp, its value and SP before PUSH rp

Machine == [cpu |-> cpu, mem |-> mem, ula |-> ula, err |-> err]

(***************************************************************************)
(* CPU-level specification: executeInstruction and cpu.interrupt() called  *)
(* at instruction boundaries, as executeFrame calls them.                  *)
(***************************************************************************)
InitCPU ==
  /\ cpu = CpuReset
  /\ \E romImage \in RomImages, prog \in Programs :
       /\ mem = MemNew(romImage, prog)
       /\ hist = [HistNew EXCEPT !.romLoaded = romImage]
  /\ ula = UlaNew
  /\ tape = TapeIdle
  /\ frame = FrameIdle
  /\ err = "none"
  /\ op = "init"

HistAfterInstr(h, name) ==
  [h EXCEPT !.steps = @ + 1, !.busAddr = 0,
            !.retSince = @ \/ name \in {"RETN", "RETI"},
            !.eiSince = @ \/ name = "EI"]

CpuStep ==
  /\ hist.steps < MaxSteps
  /\ Modelled(Machine)
  /\ \E s1 \in {ExecuteInstruction(Machine)} :
       /\ cpu' = s1.cpu
       /\ mem' = s1.mem
       /\ ula' = s1.ula
       /\ err' = s1.err
  /\ op' = InstrName(Machine)
  /\ hist' = HistAfterInstr(hist, InstrName(Machine))
  /\ UNCHANGED <<tape, frame>>

\* did interrupt() accept, in state s
Accepts(s) == s.cpu.iff1 /\ ~s.cpu.enableInterruptsPending

HistAfterInterrupt(h, accepted) ==
  IF accepted
  THEN [h EXCEPT !.ints = @ + 1, !.busAddr = 0,
                 !.accepted = TRUE, !.retSince = FALSE, !.eiSince = FALSE]
  ELSE [h EXCEPT !.ints = @ + 1, !.busAddr = 0]

CpuInterrupt ==
  /\ hist.ints < MaxInterrupts
  /\ \E s1 \in {Interrupt(Machine)} :
       /\ cpu' = s1.cpu
       /\ mem' = s1.mem
       /\ ula' = s1.ula
       /\ err' = s1.err
  /\ op' = "interrupt"
  /\ hist' = HistAfterInterrupt(hist, Accepts(Machine))
  /\ UNCHANGED <<tape, frame>>

NextCPU == CpuStep \/ CpuInterrupt

SpecCPU == InitCPU /\ [][NextCPU]_vars

(***************************************************************************)
(* Claims checked under SpecCPU                                            *)
(***************************************************************************)

\* C1: an interrupt requested between EI and the end of the instruction that
\* follows EI is never accepted: interrupt() called right after EI changes nothing.
C1_NoInterruptRightAfterEI ==
  [][(op = "EI" /\ op' = "interrupt") => (cpu' = cpu /\ mem' = mem)]_vars

\* the word interrupt() reads as the mode 2 vector, in memory m
Im2Vector(m, c) ==
  MemoryRead(m, W16(c.i * 256 + 256)) * 256 + MemoryRead(m, c.i * 256 + 255)

\* memory m1 is m0 after the two bytes of pc were pushed below sp (ROM keeps its bytes)
PushedOn(m0, m1, sp, pc) ==
  LET hiAddr == W16(sp + 65535)
      loAddr == W16(sp + 65534)
  IN  /\ m1.rom = m0.rom
      /\ \A a \in {k + RomSize : k \in (DOMAIN m0.ram) \cup (DOMAIN m1.ram)}
                    \cup {hiAddr, loAddr} :
                MemoryRead(m1, a) =
                  IF a < RomSize THEN MemoryRead(m0, a)
                  ELSE IF a = loAddr THEN pc % 256
                  ELSE IF a = hiAddr THEN pc \div 256
                  ELSE MemoryRead(m0, a)

\* C2: interrupt() acts only when iff1 is true and ei_pending is false; then it
\* clears halted, iff1 and iff2, pushes PC, and sets PC to 0x0038 (+13 T-states) in
\* IM 0 and IM 1 or to the word at (I<<8)|0xFF (+19 T-states) in IM 2; otherwise
\* it changes no CPU or memory state.
C2_InterruptEffect ==
  [][op' = "interrupt" =>
       IF cpu.iff1 /\ ~cpu.enableInterruptsPending
       THEN /\ PushedOn(mem, mem', cpu.sp, cpu.pc)
            /\ cpu' = [cpu EXCEPT !.halted = FALSE, !.iff1 = FALSE, !.iff2 = FALSE,
                                  !.sp = W16(cpu.sp + 65534),
                                  !.pc = IF cpu.im \in {0, 1} THEN 56
                                         ELSE Im2Vector(mem', cpu),
                                  !.tstates = IF cpu.im \in {0, 1} THEN cpu.tstates + 13
                                              ELSE cpu.tstates + 19]
       ELSE cpu' = cpu /\ mem' = mem]_vars

\* C2 witness: a mode 2 interrupt was accepted and vectored to the handler at 0x4020
C2_Witness ==
  op = "interrupt" /\ hist.accepted /\ cpu.im = 2 /\ cpu.pc = 16416 /\ ~cpu.iff1

\* C3 as stated: once an interrupt is accepted, iff1 is false until RETN or RETI executes.
C3_Iff1FalseUntilRet ==
  (hist.accepted /\ ~hist.retSince) => ~cpu.iff1

\* C3 amended: once an interrupt is accepted, iff1 is false until RETN, RETI or EI executes.
C3_Iff1FalseUntilRetOrEi ==
  (hist.accepted /\ ~hist.retSince /\ ~hist.eiSince) => ~cpu.iff1

\* C3 witness: an instruction of the handler has executed after an acceptance, with
\* no RETN, RETI or EI yet
C3_Witness ==
  /\ hist.accepted /\ ~hist.retSince /\ ~hist.eiSince
  /\ op = "other" /\ ~cpu.iff1

(***************************************************************************)
(* Frame driver: ZXSpectrum.executeFrame, one step per loop iteration.     *)
(* The sound sink and the display only read the machine and are left out.  *)
(***************************************************************************)
MaxFrames == 2

tstatesPerFrame == 69888

\* a target that falls short of one frame
FrameTargetShort(t) == t + 60000

\* const targetTStates = this.cpu.tstates + this.tstatesPerFrame
FrameTarget(t) == t + tstatesPerFrame

\* EI; IN A,(0xFE); JR -4: poll the EAR bit with interrupts enabled
ProgPollEi == Load(0, <<251, 219, 254, 24, 252>>)
\* IN A,(0xFE); LD B,A; PUSH BC; POP DE; JR -7: poll with interrupts disabled
ProgPollDi == Load(0, <<219, 254, 71, 197, 209, 24, 249>>)

\* one short Turbo block: 2 pilot pulses, 1 byte
TurboShort(pause, data) == TurboBlock(2330, 700, 800, 900, 1800, 2, 8, pause, data)
\* a long pilot tone with an edge every 2330 T-states
TurboLongPilot == TurboBlock(2330, 700, 800, 900, 1800, 60, 8, 0, <<165>>)

TapeLongPilot == <<TurboLongPilot>>
TapeJumpBack == <<TurboShort(0, <<165>>), JumpBlock(65533)>>
TapeJumpSelf == <<TurboShort(1, <<165>>), JumpBlock(65535)>>
TapeEmptyData == <<TurboShort(0, <<165>>), StandardBlock(0, <<>>)>>
TapeLoop ==
  <<LoopStartBlock(2), TurboShort(0, <<165>>), LoopEndBlock, PureToneBlock(2168, 4)>>
TapePauseStop == <<TurboShort(2, <<255>>), PauseBlock(1), StopTape48kBlock>>

\* handler at 0x0038: IN A,(0xFE); EI; RET
RomInEiRet == RomBoot @@ Load(56, <<219, 254, 251, 201>>)

FrameInputs ==
  { <<RomInEiRet, ProgPollEi, TapeLongPilot>>,
    <<RomEiReti, ProgIm2, TapeJumpBack>>,
    <<RomRetn, ProgPollDi, TapeJumpSelf>>,
    <<RomEiReti, ProgPollEi, TapeEmptyData>>,
    <<RomPushPop, ProgPollDi, TapeLoop>>,
    <<RomEiReti, ProgPollEi, TapePauseStop>> }

InitFrame ==
  /\ cpu = CpuReset
  /\ \E in \in FrameInputs :
       /\ mem = MemNew(in[1], in[2])
       /\ hist = [HistNew EXCEPT !.romLoaded = in[1]]
       /\ tape = TapeNew(in[3])
  /\ ula = UlaNew
  /\ frame = FrameIdle
  /\ err = "none"
  /\ op = "init"

\* a call has started a Standard/Turbo block: the player is at the first
\* pilot edge of a block it was not at before
BlockStarted(t, t1) ==
  /\ t1.playing /\ t1.thrown = "none" /\ t1.state = "PILOT" /\ t1.edgeCount = 0
  /\ ~(t.playing /\ t.state = "PILOT" /\ t.edgeCount = 0 /\ t.blockIndex = t1.blockIndex)

PlayedAfter(played, t, t1) ==
  IF BlockStarted(t, t1) THEN Append(played, t1.blockIndex - 1) ELSE played

\* the host calls tape.play() between frames
TapePlayCall ==
  /\ frame.pc = "idle" /\ err = "none"
  /\ ~tape.playing
  /\ tape' = TapePlay(tape, cpu.tstates)
  /\ err' = tape'.thrown
  /\ op' = "play"
  /\ hist' = [hist EXCEPT !.blockStart = cpu.tstates,
                          !.played = PlayedAfter(<<>>, tape, tape')]
  /\ UNCHANGED <<cpu, mem, ula, frame>>

\* executeFrame up to the loop
FrameStart ==
  /\ frame.pc = "idle" /\ err = "none"
  /\ frame.frames < MaxFrames
  /\ frame' = [frame EXCEPT !.pc = "loop", !.targetTStates = FrameTarget(cpu.tstates),
                            !.startTStates = cpu.tstates]
  /\ ula' = UlaResetFrameTStates(ula, cpu.tstates)
  /\ op' = "frameStart"
  /\ UNCHANGED <<cpu, mem, tape, err, hist>>

\* one iteration of the loop: executeInstruction, tape.update, ula.setTapeInput
FrameStep ==
  /\ frame.pc = "loop"
  /\ cpu.tstates < frame.targetTStates
  /\ Modelled(Machine)
  /\ \E s1 \in {ExecuteInstruction(Machine)} :
       /\ cpu' = s1.cpu
       /\ mem' = s1.mem
       /\ tape' = TapeUpdate(tape, cpu'.tstates, cpu'.tstates)
       /\ IF tape'.thrown = "none"
          THEN /\ ula' = UlaSetTapeInput(s1.ula, tape'.lastEarBit)
               /\ err' = s1.err
               /\ frame' = [frame EXCEPT !.tStatesBefore = cpu.tstates]
          ELSE /\ ula' = s1.ula
               /\ err' = tape'.thrown
               /\ frame' = [frame EXCEPT !.pc = "thrown", !.tStatesBefore = cpu.tstates]
  /\ op' = InstrName(Machine)
  /\ hist' = HistAfterInstr(hist, InstrName(Machine))

\* after the loop: cpu.interrupt(), and executeFrame returns
FrameEnd ==
  /\ frame.pc = "loop"
  /\ cpu.tstates >= frame.targetTStates
  /\ \E s1 \in {Interrupt(Machine)} :
       /\ cpu' = s1.cpu
       /\ mem' = s1.mem
       /\ ula' = s1.ula
       /\ err' = s1.err
  /\ frame' = [frame EXCEPT !.pc = "idle", !.frames = @ + 1]
  /\ op' = "interrupt"
  /\ hist' = HistAfterInterrupt(hist, Accepts(Machine))
  /\ UNCHANGED tape

NextFrame == TapePlayCall \/ FrameStart \/ FrameStep \/ FrameEnd

SpecFrame == InitFrame /\ [][NextFrame]_vars

(***************************************************************************)
(* Claims about the frame driver                                           *)
(***************************************************************************)
\* C4 as stated: when executeFrame has returned, cpu.tstates equals its value
\* before the call plus 69,888.
C4_FrameExactly69888 ==
  (op = "interrupt" /\ frame.pc = "idle")
    => cpu.tstates = frame.startTStates + 69888

\* C4 amended: executeFrame advances cpu.tstates by at least 69,888. The last
\* instruction of the frame starts below the starting value plus 69,888 and
\* ends at or above it, and the frame-end interrupt then adds 13 T-states
\* (IM 0/1) or 19 (IM 2) when it is accepted and nothing when it is not.
C4_FrameReachesTarget ==
  [][op' = "interrupt"
       => /\ frame.tStatesBefore < frame.startTStates + 69888
          /\ cpu.tstates >= frame.startTStates + 69888
          /\ cpu'.tstates = cpu.tstates
                + (IF Accepts(Machine) THEN (IF cpu.im = 2 THEN 19 ELSE 13) ELSE 0)]_vars

C4_Witness ==
  /\ op = "interrupt" /\ frame.pc = "idle" /\ frame.frames = 2
  /\ ~cpu.iff1 /\ hist.accepted
  /\ cpu.tstates > frame.startTStates + 69888 + 13

\* C5: when an instruction that reads a port starts, every edge of the playing
\* Standard/Turbo block scheduled at or before that T-state has been applied
\* (the next edge lies in the future), so the EAR bit it reads is current.
C5_EarBitCurrentAtPortRead ==
  [][(/\ op' = "IN"
      /\ tape.playing /\ ~tape.paused
      /\ tape.currentBlock.type \in {BLOCK_STANDARD, BLOCK_TURBO}
      /\ tape.state \in {"PILOT", "SYNC1", "SYNC2", "DATA"})
       => cpu.tstates < tape.nextEdgeCycle]_vars

\* C6: inside the frame loop scanline*224 + scanline T-state equals the
\* T-states elapsed since the start of the frame (modulo 69,888), and the
\* ULA's interrupt request is set when the loop has reached the frame boundary.
C6_ScanlineTracksFrame ==
  frame.pc = "loop"
    => /\ ula.currentScanline * TSTATES_PER_SCANLINE + ula.scanlineTStates
            = (cpu.tstates - frame.startTStates) % tstatesPerFrame
       /\ (cpu.tstates >= frame.targetTStates => ula.interruptRequested)

\* C9: no exception leaves the frame loop, whatever tape is loaded.
C9_NoErrorInFrameLoop == frame.pc # "thrown"

(***************************************************************************)
(* Bus-level specification: the memory, the ULA and the CPU driven through *)
(* their public methods, interleaved with instruction execution.           *)
(***************************************************************************)
MaxBusCalls == 3
MaxBusSteps == 10

contentionPattern == <<6, 5, 4, 3, 2, 1, 0, 0>>

\* m.ula says whether setULA has given the memory its ULA, u
GetContentionDelay(m, u, addr) ==
  IF ~m.ula \/ addr < 16384 \/ addr >= 32768 THEN 0
  ELSE IF u.currentScanline < 64 \/ u.currentScanline >= 256 THEN 0
  ELSE IF u.scanlineTStates < 128 THEN contentionPattern[(u.scanlineTStates % 8) + 1]
  ELSE 0

MemoryWriteWithContention(m, u, addr0, value0) ==
  LET addr == W16(addr0)
  IN  [mem |-> IF addr >= RomSize
               THEN [m EXCEPT !.ram = Put(@, addr - RomSize, W8(value0))]
               ELSE m,
       delay |-> GetContentionDelay(m, u, addr)]

MemoryLoadROM(m, data) == [m EXCEPT !.rom = data]

MemorySetULA(m) == [m EXCEPT !.ula = TRUE]

BusAddrs == {16383, 16384}
\* to scanline 64, and a few T-states on
BusCycles == {14336, 3}

\* LD SP,0x4000; EI; PUSH HL; LD DE,0x3FFF; LD BC,2; LDIR; CALL 0x0000:
\* every store but the second LDIR byte goes to ROM
ProgRomWrites ==
  Load(0, <<49, 0, 64, 251, 229, 17, 255, 63, 1, 2, 0, 237, 176, 205, 0, 0>>)

InitBus ==
  /\ cpu = CpuReset
  /\ mem = MemNew(RomEiReti, ProgRomWrites)
  /\ hist = [HistNew EXCEPT !.romLoaded = RomEiReti]
  /\ ula = UlaNew
  /\ tape = TapeIdle
  /\ frame = FrameIdle
  /\ err = "none"
  /\ op = "init"

BusCalled(name, addr, h) ==
  /\ hist.bus < MaxBusCalls
  /\ op' = name
  /\ hist' = [h EXCEPT !.bus = @ + 1, !.busAddr = addr]

\* memory.setULA(ula)
BusSetULA ==
  /\ ~mem.ula
  /\ mem' = MemorySetULA(mem)
  /\ BusCalled("setULA", 0, hist)
  /\ UNCHANGED <<cpu, ula, tape, frame, err>>

\* ula.addCycles(cycles)
BusAddCycles ==
  /\ \E cycles \in BusCycles : ula' = UlaAddCycles(ula, cycles)
  /\ BusCalled("addCycles", 0, hist)
  /\ UNCHANGED <<cpu, mem, tape, frame, err>>

\* memory.loadROM(data)
BusLoadROM ==
  /\ \E data \in {RomRetn} :
       /\ mem' = MemoryLoadROM(mem, data)
       /\ BusCalled("loadROM", 0, [hist EXCEPT !.romLoaded = data])
  /\ UNCHANGED <<cpu, ula, tape, frame, err>>

\* cpu.readMem(addr): the byte is returned to the caller
BusReadMem ==
  /\ \E addr \in BusAddrs : BusCalled("readMem", addr, hist)
  /\ UNCHANGED <<cpu, mem, ula, tape, frame, err>>

\* cpu.writeMem(addr, val)
BusWriteMem ==
  /\ \E addr \in BusAddrs :
       /\ mem' = WriteMem(Machine, addr, 170).mem
       /\ BusCalled("writeMem", addr, hist)
  /\ UNCHANGED <<cpu, ula, tape, frame, err>>

\* memory.writeWithContention(addr, value): the delay is returned to the caller
BusWriteWithContention ==
  /\ \E addr \in BusAddrs :
       /\ mem' = MemoryWriteWithContention(mem, ula, addr, 85).mem
       /\ BusCalled("writeWithContention", addr, hist)
  /\ UNCHANGED <<cpu, ula, tape, frame, err>>

\* executeInstruction, for the first MaxBusSteps instructions
BusCpuStep == hist.steps < MaxBusSteps /\ CpuStep

NextBus ==
  \/ BusSetULA \/ BusAddCycles \/ BusLoadROM
  \/ BusReadMem \/ BusWriteMem \/ BusWriteWithContention
  \/ BusCpuStep \/ CpuInterrupt

SpecBus == InitBus /\ [][NextBus]_vars

\* the ULA is fetching the display: scanline 64..255, scanline T-state < 128
UlaFetching == ula.currentScanline \in 64..255 /\ ula.scanlineTStates < 128

\* C7: a CPU memory read or write at 0x4000..0x7FFF while the ULA is fetching
\* adds contentionPattern[scanline T-state & 7] to cpu.tstates, and any other
\* access adds nothing.
C7_ContentionChargedToCpu ==
  [][op' \in {"readMem", "writeMem"}
       => cpu'.tstates = cpu.tstates
            + (IF hist'.busAddr \in 16384..32767 /\ UlaFetching
               THEN contentionPattern[(ula.scanlineTStates % 8) + 1] ELSE 0)]_vars

\* C8: whatever writes have been made (memory.write through the CPU's
\* writeMem, writeWithContention, and the stores of PUSH, CALL, RST, LDIR,
\* LD (HL),r and interrupt acceptance), the ROM bytes are those of the last
\* loadROM.
C8_RomUnchanged == mem.rom = hist.romLoaded

C8_Witness ==
  /\ op = "writeWithContention" /\ hist.busAddr = 16383
  /\ cpu.pc = 0 /\ cpu.sp = 16380 /\ GetBC(cpu) = 0 /\ GetDE(cpu) = 16385

(***************************************************************************)
(* Tape-level specification: play() and update(cpu.tstates) called as the  *)
(* CPU clock advances by the length of the instructions executed between   *)
(* the calls.                                                              *)
(***************************************************************************)
MaxTapeTime == 200

\* T-states between two update calls
UpdateDeltas == {4, 7, 11}

\* a Turbo block with short pulses: 2 pilot pulses, one byte
TurboTiny == TurboBlock(10, 7, 8, 5, 9, 2, 8, 0, <<165>>)

\* a Pure data block of 8 + 3 bits and a Pure tone block of 3 pulses
PureDataTiny == PureDataBlock(5, 9, 3, 0, <<165, 192>>)
PureToneTiny == PureToneBlock(6, 3)

TapeInputs ==
  {<<TurboTiny>>, <<TurboTiny, TurboTiny>>, <<PureDataTiny, TurboTiny>>,
   <<PureToneTiny, TurboTiny>>}

InitTape ==
  /\ cpu = CpuReset
  /\ mem = MemNew(RomBoot, ProgPollDi)
  /\ hist = [HistNew EXCEPT !.romLoaded = RomBoot]
  /\ ula = UlaNew
  /\ tape \in {TapeNew(blocks) : blocks \in TapeInputs}
  /\ frame = FrameIdle
  /\ err = "none"
  /\ op = "init"

\* the CPU clock advances and update(cpu.tstates) is called
TapeUpdateCall ==
  /\ err = "none"
  /\ \E d \in UpdateDeltas :
       /\ cpu.tstates + d <= MaxTapeTime
       /\ cpu' = [cpu EXCEPT !.tstates = @ + d]
       /\ tape' = TapeUpdate(tape, cpu'.tstates, cpu'.tstates)
       /\ err' = tape'.thrown
  /\ op' = "update"
  /\ UNCHANGED <<mem, ula, frame, hist>>

NextTape == TapePlayCall \/ TapeUpdateCall

SpecTape == InitTape /\ [][NextTape]_vars

\* T-states of the first n data bits of a block, two pulses each
RECURSIVE BitsTStates(_, _)
BitsTStates(block, n) ==
  IF n = 0 THEN 0
  ELSE BitsTStates(block, n - 1)
         + 2 * PulseLength(Bit(block.data[((n - 1) \div 8) + 1], 7 - ((n - 1) % 8)), block)

\* the T-state of the next edge as block timing alone gives it: the block's
\* start plus the lengths of the pulses up to and including the current one
ScheduledEdge(t, start) ==
  LET b == t.currentBlock
      sync1 == start + 2 * b.pilotPulses * b.pilotPulse
  IN  CASE t.state = "PILOT" -> start + (t.edgeCount + 1) * b.pilotPulse
        [] t.state = "SYNC1" -> sync1 + b.sync1Pulse
        [] t.state = "SYNC2" -> sync1 + b.sync1Pulse + b.sync2Pulse
        [] t.state = "DATA" ->
             sync1 + b.sync1Pulse + b.sync2Pulse
               + BitsTStates(b, t.bytePosition * 8 + t.bitPosition)
               + (t.pulseCount + 1) * PulseLength(t.currentBit, b)

\* C10: while the first Standard/Turbo block plays, nextEdgeCycle equals the
\* block's start T-state plus the sum of the pulse lengths so far, whatever
\* the T-states at which update was called.
C10_EdgesFromBlockTiming ==
  (/\ tape.playing /\ tape.blockIndex = 1
   /\ tape.currentBlock.type \in {BLOCK_STANDARD, BLOCK_TURBO}
   /\ tape.state \in {"PILOT", "SYNC1", "SYNC2", "DATA"})
    => tape.nextEdgeCycle = ScheduledEdge(tape, hist.blockStart)

\* C11: the pilot tone of the first block is 2 * pilotPulses edges, each
\* pilotPulse T-states after the previous one, counted from the block's
\* start; Sync1 is entered after the last of them and its edge is due
\* sync1Pulse T-states after the T-state of that last pilot edge.
C11_PilotThenSync1 ==
  LET b == tape.currentBlock
      pilotEnd == hist.blockStart + 2 * b.pilotPulses * b.pilotPulse
  IN  (tape.playing /\ tape.blockIndex = 1 /\ b.type \in {BLOCK_STANDARD, BLOCK_TURBO})
        => /\ tape.state = "PILOT"
                => /\ tape.edgeCount < 2 * b.pilotPulses
                   /\ tape.nextEdgeCycle = hist.blockStart + (tape.edgeCount + 1) * b.pilotPulse
           /\ tape.state = "SYNC1"
                => /\ tape.edgeCount = 2 * b.pilotPulses
                   /\ tape.nextEdgeCycle = pilotEnd + b.sync1Pulse

\* C12: whenever update returns with the player in Data state, every edge
\* due so far has been emitted (the next one lies in the future), the bit
\* being emitted is bit 7 - bitPosition of byte bytePosition (most
\* significant first), it is within the used bits of the last byte, and the
\* EAR level has toggled twice for every bit finished (it is high exactly
\* between the two edges of a bit).
C12_DataBitsMsbFirst ==
  LET b == tape.currentBlock
      isLastByte == tape.bytePosition = Len(b.data) - 1
  IN  (op = "update" /\ tape.playing /\ tape.state = "DATA")
        => /\ cpu.tstates < tape.nextEdgeCycle
           /\ tape.bytePosition < Len(b.data)
           /\ tape.bitPosition < (IF isLastByte THEN b.usedBits ELSE 8)
           /\ tape.currentBit = Bit(b.data[tape.bytePosition + 1], 7 - tape.bitPosition)
           /\ tape.pulseCount \in {0, 1}
           /\ tape.lastEarBit = tape.pulseCount

(***************************************************************************)
(* Player-level specification: whole tapes (pauses, loops, jumps) played   *)
(* with update called at long intervals                                    *)
(***************************************************************************)
MaxPlayerTime == 27000

\* T-states between two update calls
PlayerDeltas == {1000, 1500}

\* a Turbo block of one pilot pulse and one data bit
TurboBit(pause) == TurboBlock(10, 7, 8, 5, 9, 1, 1, pause, <<128>>)

TapeGaps == <<TurboBit(1), TurboBit(2), TurboBit(0)>>
LoopTape(n) == <<LoopStartBlock(n), TurboBit(0), TurboBit(0), LoopEndBlock, TurboBit(0)>>
TapeJumpForward == <<TurboBit(0), JumpBlock(1), TurboBit(0), TurboBit(0)>>
TapeJumpBackward == <<TurboBit(0), TurboBit(0), JumpBlock(65534)>>

PlayerInputs == {TapeGaps, LoopTape(1), LoopTape(2), TapeJumpForward, TapeJumpBackward}

InitPlayer ==
  /\ cpu = CpuReset
  /\ mem = MemNew(RomBoot, ProgPollDi)
  /\ hist = [HistNew EXCEPT !.romLoaded = RomBoot]
  /\ ula = UlaNew
  /\ tape \in {TapeNew(blocks) : blocks \in PlayerInputs}
  /\ frame = FrameIdle
  /\ err = "none"
  /\ op = "init"

\* the CPU clock advances and update(cpu.tstates) is called
PlayerUpdateCall ==
  /\ err = "none"
  /\ \E d \in PlayerDeltas :
       /\ cpu.tstates + d <= MaxPlayerTime
       /\ cpu' = [cpu EXCEPT !.tstates = @ + d]
       /\ tape' = TapeUpdate(tape, cpu'.tstates, cpu'.tstates)
       /\ err' = tape'.thrown
  /\ op' = "update"
  /\ hist' = [hist EXCEPT
       !.played = PlayedAfter(@, tape, tape'),
       !.blockEnd = IF tape.state # "PAUSE" /\ tape'.state = "PAUSE"
                    THEN cpu'.tstates ELSE @]
  /\ UNCHANGED <<mem, ula, frame>>

NextPlayer == TapePlayCall \/ PlayerUpdateCall

SpecPlayer == InitPlayer /\ [][NextPlayer]_vars

C14_PureToneToggles ==
  LET b == tape.currentBlock
  IN  (op = "update" /\ tape.playing /\ tape.state = "PURE_TONE")
        => /\ tape.edgeCount < b.pulseCount
           /\ tape.lastEarBit = tape.edgeCount % 2
           /\ tape.nextEdgeCycle = hist.blockStart + (tape.edgeCount + 1) * b.pulseLength
           /\ cpu.tstates < tape.nextEdgeCycle

RECURSIVE Repeated(_, _)
Repeated(seq, n) == IF n = 0 THEN <<>> ELSE seq \o Repeated(seq, n - 1)

IsPrefix(p, q) == Len(p) <= Len(q) /\ SubSeq(q, 1, Len(p)) = p

\* C15: on the tape LoopStart{n}, A, B, LoopEnd, C the blocks started since
\* play() are a prefix of (A, B) n times, then C; the loop stack holds one
\* entry, pushed by LoopStart, from the start of the first A until the last B
\* has ended, and is empty before and after.
C15_LoopBodyPlayedNTimes ==
  \A n \in 1..2 :
    tape.blocks = LoopTape(n)
      => /\ IsPrefix(hist.played, Repeated(<<1, 2>>, n) \o <<4>>)
         /\ Len(tape.loopStack) = (IF Len(hist.played) \in 1..(2 * n) /\ tape.playing THEN 1 ELSE 0)
         /\ tape.loopStack # <<>>
              => /\ tape.loopStack[1].blockIndex = 0
                 /\ tape.loopStack[1].counter = n - ((Len(hist.played) - 1) \div 2)

\* the block after the loop has started after two rounds of the body
C15_Witness ==
  /\ tape.blocks = LoopTape(2) /\ hist.played = <<1, 2, 1, 2, 4>>
  /\ tape.playing /\ tape.loopStack = <<>>

\* C16: when the block that follows the one playing is a Jump block (at
\* index i = blockIndex, with signed offset k), the step that ends the
\* playing block starts the block at index i + k.
C16_JumpLandsOnIPlusK ==
  [][(/\ tape.playing /\ tape.blockIndex \in 0..(Len(tape.blocks) - 1)
      /\ tape.blocks[tape.blockIndex + 1].type = BLOCK_JUMP
      /\ BlockStarted(tape, tape'))
       => tape'.blockIndex - 1
            = tape.blockIndex + tape.blocks[tape.blockIndex + 1].jumpOffset]_vars

(***************************************************************************)
(* Control-level specification: play, pause, stop and rewind called by the *)
(* host in any order between update calls                                  *)
(***************************************************************************)
MaxControlCalls == 3
MaxControlTime == 60

InitControl ==
  /\ cpu = CpuReset
  /\ mem = MemNew(RomBoot, ProgPollDi)
  /\ hist = [HistNew EXCEPT !.romLoaded = RomBoot]
  /\ ula = UlaNew
  /\ tape \in {TapeNew(<<TurboTiny>>), TapeNew(<<>>)}
  /\ frame = FrameIdle
  /\ err = "none"
  /\ op = "init"

\* the rest of a step that calls one of the player's control methods
ControlCalled(name) ==
  /\ err' = tape'.thrown
  /\ op' = name
  /\ hist' = [hist EXCEPT !.bus = @ + 1,
                          !.resetSince = @ \/ name \in {"stop", "rewind"}]
  /\ UNCHANGED <<cpu, mem, ula, frame>>

ControlPlay ==
  /\ err = "none" /\ hist.bus < MaxControlCalls
  /\ tape' = TapePlay(tape, cpu.tstates)
  /\ ControlCalled("play")

ControlPause ==
  /\ err = "none" /\ hist.bus < MaxControlCalls
  /\ tape' = TapePause(tape)
  /\ ControlCalled("pause")

ControlStop ==
  /\ err = "none" /\ hist.bus < MaxControlCalls
  /\ tape' = TapeStop(tape)
  /\ ControlCalled("stop")

ControlRewind ==
  /\ err = "none" /\ hist.bus < MaxControlCalls
  /\ tape' = TapeRewind(tape)
  /\ ControlCalled("rewind")

ControlUpdate ==
  /\ err = "none"
  /\ \E d \in UpdateDeltas :
       /\ cpu.tstates + d <= MaxControlTime
       /\ cpu' = [cpu EXCEPT !.tstates = @ + d]
       /\ tape' = TapeUpdate(tape, cpu'.tstates, cpu'.tstates)
       /\ err' = tape'.thrown
  /\ op' = "update"
  /\ hist' = [hist EXCEPT !.lastReturned = tape'.lastEarBit, !.resetSince = FALSE]
  /\ UNCHANGED <<mem, ula, frame>>

NextControl == ControlPlay \/ ControlPause \/ ControlStop \/ ControlRewind \/ ControlUpdate

SpecControl == InitControl /\ [][NextControl]_vars

\* update is called on a player that is not playing, is paused, or has no
\* current block
UpdateOfIdlePlayer ==
  op' = "update" /\ (~tape.playing \/ tape.paused \/ tape.currentBlock = NoBlock)

\* C17 as stated: an update of a player that is not playing, is paused or has
\* no current block changes no player state and returns the bit the previous
\* update returned.
C17_IdleUpdateReturnsPrevious ==
  [][UpdateOfIdlePlayer
       => /\ tape' = tape
          /\ hist.lastReturned # -1 => tape'.lastEarBit = hist.lastReturned]_vars

\* C17, amended: such an update changes no player state and returns the
\* stored lastEarBit, which is the bit the previous update returned unless
\* stop() or rewind() has been called since (or there was no update yet), and
\* 0 in that case.
C17_IdleUpdateReturnsStored ==
  [][UpdateOfIdlePlayer
       => /\ tape' = tape
          /\ tape'.lastEarBit = (IF hist.resetSince \/ hist.lastReturned = -1
                                 THEN 0 ELSE hist.lastReturned)]_vars

\* an update of a paused player whose EAR level is high has returned high
\* and left the player as the previous update left it
C17_Witness ==
  /\ op = "update" /\ tape.playing /\ tape.paused
  /\ tape.lastEarBit = 1 /\ hist.lastReturned = 1
  /\ tape.lastUpdateCycle < cpu.tstates

(***************************************************************************)
(* ULA-level specification: key events, the tape input, port reads and     *)
(* writes by IN A,(n) / OUT (n),A, the CPU clock and frame starts, in any  *)
(* order                                                                   *)
(***************************************************************************)
MaxUlaCalls == 4

\* key codes of the events; "F1" is not in the key matrix
KeyCodes == {"ShiftLeft", "KeyV", "Enter", "F1"}

\* high bytes of the ports read: row 0, row 7, every row, no row, rows 0 and 6
HighBytes == {254, 127, 0, 255, 190}

\* low bytes of the ports: the ULA port and an odd port
LowBytes == {254, 255}

\* bytes written to the ports
OutValues == {2, 5, 21}

\* T-states by which the clock advances between the events
UlaDeltas == {56000, 13888}

InitUla ==
  /\ cpu = CpuReset
  /\ mem = MemNew(RomBoot, ProgPollDi)
  /\ hist = [HistNew EXCEPT !.romLoaded = RomBoot]
  /\ ula = UlaNew
  /\ tape = TapeIdle
  /\ frame = FrameIdle
  /\ err = "none"
  /\ op = "init"

\* the rest of a step that calls a method of the ULA
UlaCalled(name, port) ==
  /\ op' = name
  /\ hist' = [hist EXCEPT !.bus = @ + 1, !.busAddr = port]
  /\ UNCHANGED <<mem, tape, frame, err>>

UlaKeyDownCall ==
  /\ hist.bus < MaxUlaCalls
  /\ \E code \in KeyCodes : ula' = UlaKeyDown(ula, code)
  /\ cpu' = cpu
  /\ UlaCalled("keyDown", 0)

UlaKeyUpCall ==
  /\ hist.bus < MaxUlaCalls
  /\ \E code \in KeyCodes : ula' = UlaKeyUp(ula, code)
  /\ cpu' = cpu
  /\ UlaCalled("keyUp", 0)

UlaReleaseAllKeysCall ==
  /\ hist.bus < MaxUlaCalls
  /\ ula' = UlaReleaseAllKeys(ula)
  /\ cpu' = cpu
  /\ UlaCalled("releaseAllKeys", 0)

UlaSetTapeInputCall ==
  /\ hist.bus < MaxUlaCalls
  /\ \E bit \in {0, 1} : ula' = UlaSetTapeInput(ula, bit)
  /\ cpu' = cpu
  /\ UlaCalled("setTapeInput", 0)

\* IN A,(n) with A = hi: A = portIn((A << 8) | n)
UlaPortIn ==
  /\ hist.bus < MaxUlaCalls
  /\ \E hi \in HighBytes, n \in LowBytes :
       \E rd \in {PortIn(Machine, hi * 256 + n)} :
         /\ ula' = rd.s.ula
         /\ cpu' = [cpu EXCEPT !.a = rd.val]
         /\ UlaCalled("IN", hi * 256 + n)

\* OUT (n),A with A = val: portOut((A << 8) | n, A)
UlaPortOut ==
  /\ hist.bus < MaxUlaCalls
  /\ \E val \in OutValues, n \in LowBytes :
       /\ ula' = PortOut(Machine, val * 256 + n, val).ula
       /\ cpu' = [cpu EXCEPT !.a = val]
       /\ UlaCalled("OUT", val * 256 + n)

\* the CPU clock advances
UlaClock ==
  /\ hist.bus < MaxUlaCalls
  /\ \E d \in UlaDeltas : cpu' = [cpu EXCEPT !.tstates = @ + d]
  /\ ula' = ula
  /\ UlaCalled("other", 0)

\* executeFrame starts a frame: resetFrameTStates
UlaFrameStart ==
  /\ hist.bus < MaxUlaCalls
  /\ ula' = UlaResetFrameTStates(ula, cpu.tstates)
  /\ cpu' = cpu
  /\ UlaCalled("frameStart", 0)

NextUla ==
  \/ UlaKeyDownCall \/ UlaKeyUpCall \/ UlaReleaseAllKeysCall \/ UlaSetTapeInputCall
  \/ UlaPortIn \/ UlaPortOut \/ UlaClock \/ UlaFrameStart

SpecUla == InitUla /\ [][NextUla]_vars

\* C18: a read of a port with bit 0 = 0 returns a byte whose bit c, c in
\* 0..4, is 1 exactly when bit c of keyboard[r] is 1 for every row r whose
\* bit in the port's high byte is clear, whose bit 6 is the EAR input, and
\* whose bits 5 and 7 are 1.
C18_PortReadBits ==
  [][(op' = "IN" /\ hist'.busAddr % 2 = 0)
       => LET hi == hist'.busAddr \div 256
              val == cpu'.a
          IN  /\ \A c \in 0..4 :
                   (Bit(val, c) = 1)
                     <=> \A r \in 0..7 : Bit(hi, r) = 0 => Bit(ula.keyboardState[r], c) = 1
              /\ Bit(val, 6) = (IF ula.earBit # 0 THEN 1 ELSE 0)
              /\ Bit(val, 5) = 1 /\ Bit(val, 7) = 1]_vars

\* with ShiftLeft and Enter held and the EAR input low, a read of rows 0 and
\* 6 has returned 0xBE
C18_Witness ==
  /\ op = "IN" /\ hist.busAddr = 190 * 256 + 254
  /\ ula.keyboardState[0] = 254 /\ ula.keyboardState[6] = 254 /\ ula.earBit = 0
  /\ cpu.a = 190

\* the log entry of a write at the current T-state of the frame
BorderEntry(val) == [tstate |-> cpu.tstates - ula.frameStartTState, color |-> val % 8]

\* C19 as stated: every write to a port with bit 0 = 0 sets border = val & 7
\* and appends (frame T-state of the write, border) to the border log.
C19_EveryWriteLogged ==
  [][(op' = "OUT" /\ hist'.busAddr % 2 = 0)
       => /\ ula'.borderColor = cpu'.a % 8
          /\ ula'.borderHistory = Append(ula.borderHistory, BorderEntry(cpu'.a))]_vars

\* C19, amended: every write to a port with bit 0 = 0 sets border = val & 7
\* and, when that differs from the border before the write, appends (frame
\* T-state of the write, border) to the border log; a write of the colour
\* the border already has leaves the log as it is.
C19_BorderChangesLogged ==
  [][(op' = "OUT" /\ hist'.busAddr % 2 = 0)
       => /\ ula'.borderColor = cpu'.a % 8
          /\ ula'.borderHistory =
               (IF cpu'.a % 8 # ula.borderColor
                THEN Append(ula.borderHistory, BorderEntry(cpu'.a))
                ELSE ula.borderHistory)]_vars

\* 0x02 written at frame T-state 0 and 0x05 at frame T-state 56,000
C19_Witness ==
  /\ op = "OUT" /\ cpu.tstates - ula.frameStartTState = 56000
  /\ ula.borderColor = 5
  /\ ula.borderHistory = <<[tstate |-> 0, color |-> 2], [tstate |-> 56000, color |-> 5]>>

(***************************************************************************)
(* Stack-level specification: PUSH rp then POP rp, for every register      *)
(* pair, from stack pointers in RAM, in ROM, across the ROM/RAM boundary   *)
(* and across the wrap at 0xFFFF                                           *)
(***************************************************************************)
StackPointers == {0, 1, 2, 100, 16383, 16384, 16385, 16386, 32768, 65535}
RpValues == {0, 1, 255, 4660, 65535}

\* the ROM the stack may lie in: DI; JP 0x4000 at 0, and bytes at 0x3FFE/0x3FFF
RomStack == RomBoot @@ Load(16382, <<17, 34>>)

GetRp(c, rp) ==
  CASE rp = 3 -> GetAF(c) [] rp = 2 -> GetHL(c) [] rp = 1 -> GetDE(c) [] rp = 0 -> GetBC(c)

SetRp(c, rp, val) ==
  CASE rp = 3 -> SetAF(c, val) [] rp = 2 -> SetHL(c, val)
    [] rp = 1 -> SetDE(c, val) [] rp = 0 -> SetBC(c, val)

InitStack ==
  /\ \E rp \in 0..3, val \in RpValues, sp \in StackPointers :
       /\ cpu = SetRp([CpuReset EXCEPT !.sp = sp], rp, val)
       /\ hist = [HistNew EXCEPT !.romLoaded = RomStack,
                                 !.saved = [rp |-> rp, value |-> val, sp |-> sp]]
  /\ mem = MemNew(RomStack, <<>>)
  /\ ula = UlaNew
  /\ tape = TapeIdle
  /\ frame = FrameIdle
  /\ err = "none"
  /\ op = "init"

\* PUSH rp (0xC5 + 16 * rp)
StackPush ==
  /\ op = "init"
  /\ \E s1 \in {PushRp(Machine, hist.saved.rp)} :
       /\ cpu' = s1.cpu
       /\ mem' = s1.mem
  /\ op' = "PUSH"
  /\ UNCHANGED <<ula, tape, frame, err, hist>>

\* POP rp (0xC1 + 16 * rp)
StackPop ==
  /\ op = "PUSH"
  /\ \E s1 \in {PopRp(Machine, hist.saved.rp)} :
       /\ cpu' = s1.cpu
       /\ mem' = s1.mem
  /\ op' = "POP"
  /\ UNCHANGED <<ula, tape, frame, err, hist>>

NextStack == StackPush \/ StackPop

SpecStack == InitStack /\ [][NextStack]_vars

\* C20 as stated: after PUSH rp; POP rp, rp and SP have the values they had
\* before, for every rp, every value and every SP.
C20_PushPopRestores ==
  op = "POP" => /\ GetRp(cpu, hist.saved.rp) = hist.saved.value
                /\ cpu.sp = hist.saved.sp

\* the byte POP reads at a stack address: the byte pushed when the address
\* is in RAM, the ROM byte when it is below 0x4000
StackByte(addr, pushed) == IF addr >= RomSize THEN pushed ELSE Get(hist.romLoaded, addr)

\* C20, amended: after PUSH rp; POP rp, SP has the value it had before, for
\* every SP; rp has the value it had before when both stack bytes (SP - 1
\* and SP - 2, modulo 65536) are at 0x4000 or above; a stack byte below
\* 0x4000 is not stored and POP loads the ROM byte instead.
C20_PushPopRestoresInRam ==
  LET hiAddr == W16(hist.saved.sp - 1)
      loAddr == W16(hist.saved.sp - 2)
  IN  op = "POP"
        => /\ cpu.sp = hist.saved.sp
           /\ (hiAddr >= RomSize /\ loAddr >= RomSize)
                => GetRp(cpu, hist.saved.rp) = hist.saved.value
           /\ GetRp(cpu, hist.saved.rp)
                = StackByte(hiAddr, hist.saved.value \div 256) * 256
                    + StackByte(loAddr, hist.saved.value % 256)

\* AF = 0x1234 pushed from SP = 1 (stack bytes at 0x0000 and 0xFFFF) and
\* popped: F is restored, A holds the ROM byte at 0x0000
C20_Witness ==
  /\ op = "POP" /\ hist.saved = [rp |-> 3, value |-> 4660, sp |-> 1]
  /\ cpu.sp = 1 /\ cpu.f = 52 /\ cpu.a = 243

(***************************************************************************)
(* Instruction-level specification: executeInstruction on short programs   *)
(* at 0x4000, from register values set before the first instruction.       *)
(***************************************************************************)
MaxInstrSteps == 4

InstrA == {0, 8, 16, 24, 143}
InstrF == {0, 1, 64}
InstrR == {0, 127, 255}
Operands == {0, 8, 15, 240}
IndexedCbOpcodes == {0, 6, 28, 70, 128, 134, 193, 198}
IndexedOffsets == {1, 255}

InstrPrograms ==
  {<<62, 5, 71, 118>>, <<0, 0, 0, 118>>, <<6, 9, 118>>, <<128, 118>>, <<142, 118>>}
    \cup {<<o, x, 118>> : o \in AluNOpcodes, x \in Operands}
    \cup {<<o, 1, 118, 118>> : o \in JrCcOpcodes}
    \cup {<<p, 0, 118>> : p \in {221, 253}}
    \cup {<<p, 62, 7, 118>> : p \in {221, 253}}
    \cup {<<p, 33, 52, 18, 118>> : p \in {221, 253}}
    \cup {<<p, p, 0, 118>> : p \in {221, 253}}
    \cup {<<p, 203, d, o, 118>> : p \in {221, 253}, d \in IndexedOffsets, o \in IndexedCbOpcodes}

\* the bytes the indexed instructions work on: 0x401F..0x4023
InstrData == Load(31, <<129, 66, 36, 126, 255>>)

InitInstr ==
  /\ \E prog \in InstrPrograms, a \in InstrA, f \in InstrF, r \in InstrR :
       /\ cpu = [CpuReset EXCEPT !.pc = 16384, !.a = a, !.f = f, !.r = r,
                                 !.b = 8, !.c = 51, !.h = 64, !.l = 33,
                                 !.ix = 16416, !.iy = 16418]
       /\ mem = MemNew(RomBoot, Load(0, prog) @@ InstrData)
  /\ hist = [HistNew EXCEPT !.romLoaded = RomBoot]
  /\ ula = UlaNew
  /\ tape = TapeIdle
  /\ frame = FrameIdle
  /\ err = "none"
  /\ op = "init"

InstrStep ==
  /\ hist.steps < MaxInstrSteps
  /\ Modelled(Machine)
  /\ \E s1 \in {ExecuteInstruction(Machine)} :
       /\ cpu' = s1.cpu
       /\ mem' = s1.mem
       /\ ula' = s1.ula
       /\ err' = s1.err
  /\ op' = InstrName(Machine)
  /\ hist' = HistAfterInstr(hist, InstrName(Machine))
  /\ UNCHANGED <<tape, frame>>

NextInstr == InstrStep

SpecInstr == InitInstr /\ [][NextInstr]_vars

\* the opcode byte at PC and the bytes after it
OpcodeAt(k) == ReadMem(Machine, W16(cpu.pc + k))

\* C21: every base-table instruction advances cpu.tstates by its documented
\* cost: NOP 4, LD r,n 7, each immediate ALU form 7, JR cc 12 when taken and 7
\* when not taken
DocumentedCost ==
  CASE OpcodeAt(0) = 0 -> 4
    [] OpcodeAt(0) \in LdRNOpcodes -> 7
    [] OpcodeAt(0) \in AluNOpcodes -> 7
    [] OpcodeAt(0) \in JrCcOpcodes ->
         IF Condition(cpu, (OpcodeAt(0) - 32) \div 8) THEN 12 ELSE 7
    [] OTHER -> 0
C21_DocumentedCosts ==
  [][(~cpu.halted /\ OpcodeAt(0) \in {0} \cup LdRNOpcodes \cup AluNOpcodes \cup JrCcOpcodes)
       => cpu'.tstates - cpu.tstates = DocumentedCost]_vars

\* a DD or FD prefix followed by another prefix byte
PrefixChain == OpcodeAt(0) \in {221, 253} /\ OpcodeAt(1) \in {203, 221, 237, 253}

\* the opcode bytes of the instruction at PC: a prefix and the opcode, or the opcode alone
OpcodeBytes == IF OpcodeAt(0) \in {221, 237, 253} THEN 2 ELSE 1

\* C25: R increments its low 7 bits exactly once per opcode byte fetched, not
\* per operand byte, and bit 7 of R is never changed by an increment
C25_ROncePerOpcodeByte ==
  [][(~cpu.halted /\ ~PrefixChain)
       => cpu'.r = (IF OpcodeBytes = 2 THEN IncR(IncR(cpu.r)) ELSE IncR(cpu.r))]_vars

\* the instruction at PC is ADD A,x or ADC A,x, with its operand and incoming carry
AddStep == ~cpu.halted /\ OpcodeAt(0) \in {198, 206} \cup (128..143)
AddOperand ==
  IF OpcodeAt(0) \in {198, 206} THEN OpcodeAt(1)
  ELSE IF OpcodeAt(0) % 8 = 6 THEN ReadMem(Machine, GetHL(cpu))
  ELSE GetReg(cpu, OpcodeAt(0) % 8)
AddCarryIn ==
  IF OpcodeAt(0) \in {206} \cup (136..143) /\ GetFlag(cpu.f, FLAG_C) THEN 1 ELSE 0

\* C26: after ADD A,x or ADC A,x the H flag equals the carry out of bit 3:
\* H is set iff (A & 0x0F) + (x & 0x0F) + carry_in > 0x0F
C26_HalfCarryOutOfBit3 ==
  [][AddStep => (GetFlag(cpu'.f, FLAG_H)
                   <=> (cpu.a % 16) + (AddOperand % 16) + AddCarryIn > 15)]_vars

\* C27: every executeInstruction call strictly increases cpu.tstates by at
\* least 4 (so that a frame of 69,888 T-states takes at most 17,472 calls)
C27_AtLeastFourTStates ==
  [][cpu'.tstates >= cpu.tstates + 4]_vars

\* a DD or FD prefix followed by an opcode that has no indexed form
PrefixedBase ==
  ~cpu.halted /\ OpcodeAt(0) \in {221, 253}
    /\ OpcodeAt(1) \notin IndexedDefined \cup {203, 221, 237, 253}
\* what the base instruction after the prefix does when executed on its own
BaseResult == ExecuteInstruction([Machine EXCEPT !.cpu.pc = W16(@ + 1)])

\* C23: a DD or FD prefix followed by an opcode that has no indexed form
\* executes the base instruction and costs the base instruction's T-states plus 4
C23_PrefixedBaseCostsFourMore ==
  [][PrefixedBase
       => /\ mem' = BaseResult.mem
          /\ cpu' = [BaseResult.cpu EXCEPT !.tstates = @ + 4, !.r = IncR(@)]]_vars

\* the instruction at PC is DD CB d op / FD CB d op with a rotate/shift, RES or SET
IndexedCbStep ==
  ~cpu.halted /\ OpcodeAt(0) \in {221, 253} /\ OpcodeAt(1) = 203 /\ OpcodeAt(3) \div 64 # 1
IndexedAddr ==
  W16((IF OpcodeAt(0) = 221 THEN cpu.ix ELSE cpu.iy) + ToSigned(OpcodeAt(2)) + 65536)
\* the result the instruction is to produce from the byte at (IX+d) / (IY+d)
IndexedResult ==
  LET value == ReadMem(Machine, IndexedAddr)
      bit == (OpcodeAt(3) \div 8) % 8
  IN  CASE OpcodeAt(3) \div 64 = 0 -> RotateOp(cpu.f, OpcodeAt(3) \div 8, value).result
        [] OpcodeAt(3) \div 64 = 2 -> value - Bit(value, bit) * (2 ^ bit)
        [] OpcodeAt(3) \div 64 = 3 -> value + (1 - Bit(value, bit)) * (2 ^ bit)

\* C24: DD CB d op / FD CB d op (rotate/shift, RES, SET) writes the result to the
\* byte at (IX+d) / (IY+d) and, when the register sub-field is not 6, copies it
\* into the named register; no other register or memory byte changes
C24_IndexedCbResult ==
  [][IndexedCbStep
       => /\ MemoryRead(mem', IndexedAddr) = IndexedResult
          /\ OpcodeAt(3) % 8 # 6 => GetReg(cpu', OpcodeAt(3) % 8) = IndexedResult
          /\ \A n \in {0, 1, 2, 3, 4, 5, 7} \ {OpcodeAt(3) % 8} :
               GetReg(cpu', n) = GetReg(cpu, n)
          /\ cpu'.sp = cpu.sp /\ cpu'.ix = cpu.ix /\ cpu'.iy = cpu.iy /\ cpu'.i = cpu.i
          /\ \A addr \in 0..65535 :
               addr # IndexedAddr => MemoryRead(mem', addr) = MemoryRead(mem, addr)]_vars

(***************************************************************************)
(* LDIR: ED B0 at 0x4040 followed by HALT, started with BC = n, HL and DE  *)
(* drawn so that the source and the destination lie in RAM, in ROM, across *)
(* the ROM/RAM boundary, across 0xFFFF, on each other and on the           *)
(* instruction itself.                                                     *)
(***************************************************************************)
LdirCounts == 0..3
LdirSources == {16415, 0, 65534}
LdirDestinations == {16432, 16383, 16, 16416, 16448}

InitLdir ==
  /\ \E n \in LdirCounts, hl \in LdirSources, de \in LdirDestinations :
       /\ cpu = SetBC(SetHL(SetDE([CpuReset EXCEPT !.pc = 16448], de), hl), n)
       /\ hist = [HistNew EXCEPT !.romLoaded = RomBoot,
                                 !.saved = [n |-> n, hl |-> hl, de |-> de]]
  /\ mem = MemNew(RomBoot, Load(64, <<237, 176, 118>>) @@ InstrData)
  /\ ula = UlaNew
  /\ tape = TapeIdle
  /\ frame = FrameIdle
  /\ err = "none"
  /\ op = "init"

SpecLdir == InitLdir /\ [][NextInstr]_vars

\* memory as InitLdir leaves it
LdirMemory == MemNew(RomBoot, Load(64, <<237, 176, 118>>) @@ InstrData)
LdirSrc(k) == W16(hist.saved.hl + k)
LdirDst(k) == W16(hist.saved.de + k)
LdirRange == 0..(hist.saved.n - 1)

\* LDIR has completed: the last step was an LDIR iteration that left PC after it
LdirCompleted == op = "LDIR" /\ cpu.pc = 16450

\* C22 as stated: when LDIR started with BC = n completes, the n destination
\* bytes hold the n source bytes, BC = 0 and PC points after LDIR
C22_LdirCopiesNBytes ==
  LdirCompleted
    => /\ \A k \in LdirRange : MemoryRead(mem, LdirDst(k)) = MemoryRead(LdirMemory, LdirSrc(k))
       /\ GetBC(cpu) = 0

\* the destination meets neither the source nor the two bytes of the instruction
LdirDisjoint ==
  \A k \in LdirRange :
    /\ LdirDst(k) \notin {16448, 16449}
    /\ \A j \in LdirRange : LdirDst(k) # LdirSrc(j)

\* C22: when LDIR started with BC = n >= 1 completes (destination apart from the
\* source and from the instruction), every destination byte at 0x4000 or above
\* holds its source byte, every destination byte below 0x4000 and every other
\* byte is unchanged, HL and DE have advanced by n, BC = 0, and it has taken
\* exactly n executeInstruction calls
C22_LdirCopiesNBytesToRam ==
  (LdirCompleted /\ LdirDisjoint)
    => /\ hist.saved.n >= 1
       /\ hist.steps = hist.saved.n
       /\ GetBC(cpu) = 0
       /\ GetHL(cpu) = LdirSrc(hist.saved.n)
       /\ GetDE(cpu) = LdirDst(hist.saved.n)
       /\ \A k \in LdirRange :
            MemoryRead(mem, LdirDst(k)) =
              IF LdirDst(k) >= RomSize THEN MemoryRead(LdirMemory, LdirSrc(k))
              ELSE MemoryRead(LdirMemory, LdirDst(k))
       /\ \A addr \in 0..65535 :
            addr \notin {LdirDst(k) : k \in LdirRange}
              => MemoryRead(mem, addr) = MemoryRead(LdirMemory, addr)

\* LDIR with n = 3 has copied across the ROM/RAM boundary and completed
C22_Witness ==
  /\ LdirCompleted /\ LdirDisjoint
  /\ hist.saved.n = 3 /\ hist.saved.de = 16383 /\ hist.saved.hl = 16415
  /\ MemoryRead(mem, 16384) = 66

(***************************************************************************)
(* Playback to the end of the tape: play() once, then update(cpu.tstates)  *)
(* for as long as the clock runs.  The host calls update on every          *)
(* instruction of every frame, so the update step is weakly fair; the      *)
(* clock stops at MaxLiveTime, far beyond the T-states the blocks of       *)
(* LiveTapes describe.                                                     *)
(***************************************************************************)
MaxLiveTime == 20000
LiveDeltas == {500, 700}

PulseSequenceTiny == PulseSequenceBlock(<<6, 4, 9>>)
DirectRecordingTiny == DirectRecordingBlock(5, 0, 8, <<165>>)

LiveTapes ==
  {<<TurboTiny>>, <<TurboBit(1)>>, <<PauseBlock(1), TurboBit(0)>>,
   <<PureToneTiny>>, <<PulseSequenceTiny>>, <<PureDataTiny>>, <<DirectRecordingTiny>>,
   <<LoopStartBlock(2), TurboBit(0), LoopEndBlock>>}

InitLive ==
  /\ cpu = CpuReset
  /\ mem = MemNew(RomBoot, ProgPollDi)
  /\ hist = [HistNew EXCEPT !.romLoaded = RomBoot]
  /\ ula = UlaNew
  /\ tape \in {TapeNew(blocks) : blocks \in LiveTapes}
  /\ frame = FrameIdle
  /\ err = "none"
  /\ op = "init"

\* tape.play(), once
LivePlay ==
  /\ op = "init"
  /\ tape' = TapePlay(tape, cpu.tstates)
  /\ err' = tape'.thrown
  /\ op' = "play"
  /\ hist' = [hist EXCEPT !.played = PlayedAfter(<<>>, tape, tape')]
  /\ UNCHANGED <<cpu, mem, ula, frame>>

\* the CPU clock advances and update(cpu.tstates) is called
LiveUpdate ==
  /\ op # "init" /\ err = "none"
  /\ \E d \in LiveDeltas :
       /\ cpu.tstates + d <= MaxLiveTime
       /\ cpu' = [cpu EXCEPT !.tstates = @ + d]
       /\ tape' = TapeUpdate(tape, cpu'.tstates, cpu'.tstates)
       /\ err' = tape'.thrown
  /\ op' = "update"
  /\ hist' = [hist EXCEPT !.played = PlayedAfter(@, tape, tape')]
  /\ UNCHANGED <<mem, ula, frame>>

NextLive == LivePlay \/ LiveUpdate

SpecLive == InitLive /\ [][NextLive]_vars /\ WF_vars(LivePlay) /\ WF_vars(LiveUpdate)

\* C28: while the tape is playing and update keeps being called with growing
\* T-states, every block of every type completes and a tape without a Jump
\* block reaches its end, where playback stops
C28_TapeReachesEnd == tape.playing ~> ~tape.playing

\* the block types update() does not dispatch: on them an update call changes
\* nothing but lastUpdateCycle, whatever the T-state it is given
UndispatchedTypes ==
  {BLOCK_PURE_TONE, BLOCK_PULSE_SEQUENCE, BLOCK_PURE_DATA, BLOCK_DIRECT_RECORDING}
UndispatchedBlockStaysCurrent ==
  [][(op' = "update" /\ tape.currentBlock.type \in UndispatchedTypes)
       => tape' = [tape EXCEPT !.lastUpdateCycle = cpu'.tstates]]_vars

(***************************************************************************)
(* Pause and resume: play(), one pause() during playback, update calls     *)
(* while paused, then play() again.  hist.saved keeps the T-state of the   *)
(* pause() call, the T-state at which the next edge was due then, and the  *)
(* T-state of the resuming play() call (-1: not yet).                      *)
(***************************************************************************)
MaxResumeTime == 80

InitResume ==
  /\ cpu = CpuReset
  /\ mem = MemNew(RomBoot, ProgPollDi)
  /\ hist = [HistNew EXCEPT !.romLoaded = RomBoot,
                            !.saved = [pausedAt |-> -1, due |-> 0, resumedAt |-> -1]]
  /\ ula = UlaNew
  /\ tape \in {TapeNew(<<TurboTiny>>), TapeNew(<<TurboBit(0), TurboTiny>>)}
  /\ frame = FrameIdle
  /\ err = "none"
  /\ op = "init"

\* tape.play(): the first call, or the call that resumes a paused tape
ResumePlay ==
  /\ err = "none"
  /\ op = "init" \/ (tape.paused /\ hist.saved.resumedAt = -1)
  /\ tape' = TapePlay(tape, cpu.tstates)
  /\ err' = tape'.thrown
  /\ op' = "play"
  /\ hist' = IF tape.paused THEN [hist EXCEPT !.saved.resumedAt = cpu.tstates] ELSE hist
  /\ UNCHANGED <<cpu, mem, ula, frame>>

\* tape.pause() during playback
ResumePause ==
  /\ err = "none"
  /\ tape.playing /\ ~tape.paused /\ hist.saved.pausedAt = -1
  /\ tape' = TapePause(tape)
  /\ err' = tape'.thrown
  /\ op' = "pause"
  /\ hist' = [hist EXCEPT !.saved.pausedAt = cpu.tstates, !.saved.due = tape.nextEdgeCycle]
  /\ UNCHANGED <<cpu, mem, ula, frame>>

\* the CPU clock advances and update(cpu.tstates) is called
ResumeUpdate ==
  /\ err = "none"
  /\ \E d \in UpdateDeltas :
       /\ cpu.tstates + d <= MaxResumeTime
       /\ cpu' = [cpu EXCEPT !.tstates = @ + d]
       /\ tape' = TapeUpdate(tape, cpu'.tstates, cpu'.tstates)
       /\ err' = tape'.thrown
  /\ op' = "update"
  /\ UNCHANGED <<mem, ula, frame, hist>>

NextResume == ResumePlay \/ ResumePause \/ ResumeUpdate

SpecResume == InitResume /\ [][NextResume]_vars

\* the T-states the tape has been paused for, once it has been resumed
PausedFor == hist.saved.resumedAt - hist.saved.pausedAt

\* C29: pause() freezes the tape position: after the resuming play() the edges
\* come shifted by the paused duration, so no update made before the shifted due
\* time of the edge that was pending at the pause emits an edge
C29_EdgesShiftedByPause ==
  [][(/\ op' = "update"
      /\ hist.saved.resumedAt # -1
      /\ hist.saved.due # Infinity
      /\ cpu'.tstates < hist.saved.due + PausedFor)
       => (tape'.lastEarBit = tape.lastEarBit /\ tape'.edgeCount = tape.edgeCount)]_vars

(***************************************************************************)
(* stop() and rewind() during playback of a tape with a loop               *)
(***************************************************************************)
InitReplay ==
  /\ cpu = CpuReset
  /\ mem = MemNew(RomBoot, ProgPollDi)
  /\ hist = [HistNew EXCEPT !.romLoaded = RomBoot]
  /\ ula = UlaNew
  /\ tape \in {TapeNew(<<LoopStartBlock(2), TurboBit(0), LoopEndBlock>>),
               TapeNew(<<TurboBit(1), TurboTiny>>)}
  /\ frame = FrameIdle
  /\ err = "none"
  /\ op = "init"

SpecReplay == InitReplay /\ [][NextControl]_vars

\* C30: after stop() or rewind(), in any player state, the player is not
\* playing and is Idle at block index 0 with no current block and an empty
\* loop stack
C30_StopLeavesFreshPlayer ==
  op \in {"stop", "rewind"}
    => /\ ~tape.playing /\ ~tape.paused
       /\ tape.state = "IDLE"
       /\ tape.blockIndex = 0
       /\ tape.currentBlock = NoBlock
       /\ tape.loopStack = <<>>

====
